---------------------------- MODULE Spec2Model ----------------------------
(***************************************************************************)
(* pallet-jwt: a registry of identity issuers (by domain) and of the JWKS  *)
(* trusted for each, with a propose-and-tally protocol run by validators.  *)
(* Model of src/pallet-jwt/src/lib.rs.                                     *)
(*                                                                         *)
(* Byte strings (domains, URLs, JWKS documents) are TLA+ strings of        *)
(* printable ASCII plus "\n", "\t", "\r".  Option<T> is the value None or  *)
(* Some(x).                                                                *)
(***************************************************************************)
EXTENDS Integers, Sequences, FiniteSets, TLC

None == [some |-> FALSE]
Some(x) == [some |-> TRUE, val |-> x]
IsSome(o) == o.some

(***************************************************************************)
(* serde_json, as validate_json uses it: from_slice into a Value (objects  *)
(* are BTreeMaps, so keys are ordered by bytes and a repeated key keeps    *)
(* its last value), then to_string (compact, no whitespace).  The parser   *)
(* below returns the compact serialization of the value it reads.          *)
(* Modelled input alphabet: printable ASCII without the backslash (no      *)
(* string escapes) and the backquote, and the whitespace bytes.            *)
(* Modelled numbers: integers of at most 15 digits; floats whose digits    *)
(* (integer and fraction part together, leading zeros apart) are at most   *)
(* 15 and whose exponent, less the number of fraction digits, is within    *)
(* -22 .. 22: there serde_json's conversion (the digits as an f64, times   *)
(* or divided by an exact power of ten) is correctly rounded and the       *)
(* shortest form written back is the number read.  Floats beyond the       *)
(* range of f64 are rejected and floats below it read as zero, as in       *)
(* serde_json.  For the other floats (exponents beyond 22 in size) the     *)
(* f64 that serde_json computes can differ from the nearest one in its     *)
(* last digit; they are outside the modelled inputs, and so are integers   *)
(* of more than 15 digits.                                                 *)
(***************************************************************************)
Ascii == " !\"#$%&'()*+,-./0123456789:;<=>?@ABCDEFGHIJKLMNOPQRSTUVWXYZ[]^_abcdefghijklmnopqrstuvwxyz{|}~"

\* s[a..b] clipped to the string, and the byte at i ("" past the end).
Sub(s, a, b) ==
    IF a < 1 \/ a > Len(s) \/ b < a THEN ""
    ELSE SubSeq(s, a, IF b > Len(s) THEN Len(s) ELSE b)

Ch(s, i) == Sub(s, i, i)

ByteOf(c) == CHOOSE n \in 1..Len(Ascii) : Ch(Ascii, n) = c

RECURSIVE BytesLess(_, _)
BytesLess(a, b) ==
    IF Len(b) = 0 THEN FALSE
    ELSE IF Len(a) = 0 THEN TRUE
    ELSE IF Ch(a, 1) = Ch(b, 1)
         THEN BytesLess(Sub(a, 2, Len(a)), Sub(b, 2, Len(b)))
         ELSE ByteOf(Ch(a, 1)) < ByteOf(Ch(b, 1))

IsWs(c) == c \in {" ", "\n", "\t", "\r"}
IsDigit(c) == c \in {"0", "1", "2", "3", "4", "5", "6", "7", "8", "9"}

ParseFail == [ok |-> FALSE, pos |-> 0, out |-> ""]
ParseOk(p, o) == [ok |-> TRUE, pos |-> p, out |-> o]

RECURSIVE SkipWs(_, _)
SkipWs(s, i) == IF IsWs(Ch(s, i)) THEN SkipWs(s, i + 1) ELSE i

\* The index of the closing quote of the string whose opening quote is at
\* i - 1, or 0 when the input ends or holds a control character first.
RECURSIVE StringEnd(_, _)
StringEnd(s, i) ==
    IF i > Len(s) THEN 0
    ELSE IF Ch(s, i) = "\"" THEN i
    ELSE IF IsWs(Ch(s, i)) /\ Ch(s, i) # " " THEN 0
    ELSE StringEnd(s, i + 1)

ParseString(s, i) ==
    LET j == StringEnd(s, i + 1)
    IN  IF Ch(s, i) = "\"" /\ j # 0 THEN ParseOk(j + 1, Sub(s, i, j)) ELSE ParseFail

RECURSIVE DigitsEnd(_, _)
DigitsEnd(s, i) == IF IsDigit(Ch(s, i)) THEN DigitsEnd(s, i + 1) ELSE i

DigitVal(c) == ByteOf(c) - ByteOf("0")

RECURSIVE StrToNat(_)
StrToNat(d) ==
    IF Len(d) = 0 THEN 0
    ELSE 10 * StrToNat(Sub(d, 1, Len(d) - 1)) + DigitVal(Ch(d, Len(d)))

RECURSIVE NatToStr(_)
NatToStr(n) ==
    IF n < 10 THEN Ch("0123456789", n + 1)
    ELSE NatToStr(n \div 10) \o Ch("0123456789", (n % 10) + 1)

IntToStr(n) == IF n < 0 THEN "-" \o NatToStr(-n) ELSE NatToStr(n)

RECURSIVE Zeros(_)
Zeros(n) == IF n <= 0 THEN "" ELSE "0" \o Zeros(n - 1)

RECURSIVE StripLeadingZeros(_)
StripLeadingZeros(d) ==
    IF Ch(d, 1) = "0" THEN StripLeadingZeros(Sub(d, 2, Len(d))) ELSE d

RECURSIVE TrailingZeros(_)
TrailingZeros(d) ==
    IF Len(d) > 0 /\ Ch(d, Len(d)) = "0"
    THEN 1 + TrailingZeros(Sub(d, 1, Len(d) - 1)) ELSE 0

\* A decimal exponent as serde_json (1.0.149) writes it: a positive one
\* with its sign.
WriteExponent(e) == IF e >= 0 THEN "e+" \o NatToStr(e) ELSE "e" \o IntToStr(e)

\* The shortest decimal form of the f64 with decimal digits d (no leading
\* or trailing zero) times 10^k, as serde_json writes a float.
FormatF64(d, k) ==
    LET kk == Len(d) + k
    IN  IF 0 <= k /\ kk <= 16 THEN d \o Zeros(k) \o ".0"
        ELSE IF 0 < kk /\ kk <= 16
             THEN Sub(d, 1, kk) \o "." \o Sub(d, kk + 1, Len(d))
        ELSE IF -5 < kk /\ kk <= 0 THEN "0." \o Zeros(-kk) \o d
        ELSE IF Len(d) = 1 THEN d \o WriteExponent(kk - 1)
        ELSE Ch(d, 1) \o "." \o Sub(d, 2, Len(d)) \o WriteExponent(kk - 1)

\* The digits of an exponent as a number; an exponent of more than four
\* digits is beyond every f64 and counts as 10000.
ExponentVal(digits) ==
    LET d == StripLeadingZeros(digits)
    IN  IF Len(d) > 4 THEN 10000 ELSE StrToNat(d)

\* The first 15 digits of d, zeros added at the end when d has fewer.
Pad15(d) == Sub(d \o Zeros(15 - Len(d)), 1, 15)

\* Whether the digits d times 10^k are above f64::MAX
\* (1.7976931348623157e308): the product read by serde_json is infinite.
F64Overflows(d, k) ==
    LET e == Len(d) + k - 1
    IN  \/ e > 308
        \/ e = 308 /\ BytesLess("179769313486231", Pad15(d))

\* Whether the digits d times 10^k are below half the smallest f64
\* (2.470328229206232e-324): the quotient read by serde_json is zero.
F64Underflows(d, k) ==
    LET e == Len(d) + k - 1
    IN  \/ e < -324
        \/ e = -324 /\ BytesLess(Pad15(d), "247032822920624")

\* A JSON number at i: an integer without fraction and exponent stays an
\* integer ("-0" is the float -0.0); anything else is read as an f64, which
\* fails when the number is beyond the range of f64.
ParseNumber(s, i) ==
    LET neg  == Ch(s, i) = "-"
        i0   == IF neg THEN i + 1 ELSE i
        i1   == DigitsEnd(s, i0)
        int  == Sub(s, i0, i1 - 1)
        frac == Ch(s, i1) = "."
        f1   == IF frac THEN DigitsEnd(s, i1 + 1) ELSE i1
        fdig == IF frac THEN Sub(s, i1 + 1, f1 - 1) ELSE ""
        exp  == Ch(s, f1) \in {"e", "E"}
        esgn == exp /\ Ch(s, f1 + 1) \in {"+", "-"}
        e0   == IF esgn THEN f1 + 2 ELSE f1 + 1
        e1   == IF exp THEN DigitsEnd(s, e0) ELSE f1
        eabs == IF exp THEN ExponentVal(Sub(s, e0, e1 - 1)) ELSE 0
        eval == IF esgn /\ Ch(s, f1 + 1) = "-" THEN -eabs ELSE eabs
        sign == IF neg THEN "-" ELSE ""
        all  == int \o fdig
        tz   == TrailingZeros(all)
        dig  == StripLeadingZeros(Sub(all, 1, Len(all) - tz))
    IN  IF i1 = i0 THEN ParseFail
        ELSE IF Ch(int, 1) = "0" /\ Len(int) > 1 THEN ParseFail
        ELSE IF frac /\ f1 = i1 + 1 THEN ParseFail
        ELSE IF exp /\ e1 = e0 THEN ParseFail
        ELSE IF ~frac /\ ~exp
             THEN ParseOk(i1, IF neg /\ int = "0" THEN "-0.0" ELSE sign \o int)
        ELSE IF dig = "" THEN ParseOk(e1, sign \o "0.0")
        ELSE IF F64Overflows(dig, eval - Len(fdig) + tz) THEN ParseFail
        ELSE IF F64Underflows(dig, eval - Len(fdig) + tz)
             THEN ParseOk(e1, sign \o "0.0")
        ELSE ParseOk(e1, sign \o FormatF64(dig, eval - Len(fdig) + tz))

\* The key that a serialized string stands for: the bytes between its
\* quotes (the alphabet has no escapes).
RawKey(k) == Sub(k, 2, Len(k) - 1)

\* BTreeMap::insert on the members read so far, kept ordered by the bytes
\* of the key: m is a sequence of <<key, value>>, both in their serialized
\* form.
RECURSIVE MapInsert(_, _, _)
MapInsert(m, k, v) ==
    IF Len(m) = 0 THEN << <<k, v>> >>
    ELSE IF m[1][1] = k THEN << <<k, v>> >> \o Tail(m)
    ELSE IF BytesLess(RawKey(k), RawKey(m[1][1])) THEN << <<k, v>> >> \o m
    ELSE << m[1] >> \o MapInsert(Tail(m), k, v)

RECURSIVE WriteMembers(_)
WriteMembers(m) ==
    IF Len(m) = 0 THEN ""
    ELSE m[1][1] \o ":" \o m[1][2]
         \o (IF Len(m) > 1 THEN "," ELSE "") \o WriteMembers(Tail(m))

\* F applied to the value of x, x evaluated once.
Bind(x, F(_)) == CHOOSE r \in {F(v) : v \in {x}} : TRUE

\* serde_json's recursion limit: the value read may open fewer than 128
\* arrays and objects inside one another.
RecursionLimit == 128

\* depth is the deserializer's remaining_depth.
RECURSIVE ParseValue(_, _, _)
RECURSIVE ParseMembers(_, _, _, _)
RECURSIVE ParseElements(_, _, _, _)

\* After the member value v: "," and the next member, or "}".
AfterMember(s, v, m, depth) ==
    LET e == SkipWs(s, v.pos)
    IN  IF ~v.ok THEN ParseFail
        ELSE IF Ch(s, e) = "," THEN ParseMembers(s, e + 1, m, depth)
        ELSE IF Ch(s, e) = "}" THEN ParseOk(e + 1, "{" \o WriteMembers(m) \o "}")
        ELSE ParseFail

\* After "{" or ",": a member (a string, ":", a value).
ParseMembers(s, i, m, depth) ==
    Bind(ParseString(s, SkipWs(s, i)), LAMBDA k :
        IF ~k.ok \/ Ch(s, SkipWs(s, k.pos)) # ":" THEN ParseFail
        ELSE Bind(ParseValue(s, SkipWs(s, k.pos) + 1, depth), LAMBDA v :
                 Bind(MapInsert(m, k.out, v.out), LAMBDA m2 :
                      AfterMember(s, v, m2, depth))))

\* After "[" or ",": an element, then "," or "]".
ParseElements(s, i, acc, depth) ==
    Bind(ParseValue(s, i, depth), LAMBDA v :
        Bind(acc \o v.out, LAMBDA acc2 :
            LET e == SkipWs(s, v.pos)
            IN  IF ~v.ok THEN ParseFail
                ELSE IF Ch(s, e) = ","
                     THEN ParseElements(s, e + 1, acc2 \o ",", depth)
                ELSE IF Ch(s, e) = "]" THEN ParseOk(e + 1, "[" \o acc2 \o "]")
                ELSE ParseFail))

\* An array or an object takes one off the remaining depth and fails when
\* none is left.
ParseValue(s, i, depth) ==
    Bind(SkipWs(s, i), LAMBDA p :
        LET c == Ch(s, p)
        IN  IF c \in {"{", "["} /\ depth - 1 = 0 THEN ParseFail
            ELSE IF c = "{"
            THEN IF Ch(s, SkipWs(s, p + 1)) = "}"
                 THEN ParseOk(SkipWs(s, p + 1) + 1, "{}")
                 ELSE ParseMembers(s, p + 1, << >>, depth - 1)
            ELSE IF c = "["
            THEN IF Ch(s, SkipWs(s, p + 1)) = "]"
                 THEN ParseOk(SkipWs(s, p + 1) + 1, "[]")
                 ELSE ParseElements(s, p + 1, "", depth - 1)
            ELSE IF c = "\"" THEN ParseString(s, p)
            ELSE IF c = "-" \/ IsDigit(c) THEN ParseNumber(s, p)
            ELSE IF Sub(s, p, p + 3) = "true" THEN ParseOk(p + 4, "true")
            ELSE IF Sub(s, p, p + 4) = "false" THEN ParseOk(p + 5, "false")
            ELSE IF Sub(s, p, p + 3) = "null" THEN ParseOk(p + 4, "null")
            ELSE ParseFail)

\* serde_json::from_slice then to_string: the value, then only whitespace.
from_slice_to_string(s) ==
    Bind(ParseValue(s, 1, RecursionLimit), LAMBDA v :
        IF v.ok /\ SkipWs(s, v.pos) = Len(s) + 1 THEN Some(v.out) ELSE None)

(***************************************************************************)
(* Configuration (trait Config).  The interval bounds and the length       *)
(* bounds of domains and URLs are those of the mock runtime; the JWKS      *)
(* length bound and the proposer capacity are scaled down.                 *)
(***************************************************************************)
MaxLengthIssuerDomain == 100
MaxLengthIssuerOpenIdURL == 200
MaxLengthIssuerJWKS == 16
MinUpdateInterval == 10
MaxUpdateInterval == 1000
MaxProposersPerIssuer == 3

\* u32::saturating_add on a vote counter.  A counter grows by one per
\* recorded proposer, so it stays far below u32::MAX (2^32 - 1, beyond the
\* integers TLC represents) and the sum is never clipped.
\* Mutant: the addend is counted twice.
saturating_add_twice(a, b) == a + b + b

\* Mutant: the sum is made from a stale count of zero.
saturating_add_stale(a, b) == b

saturating_add(a, b) == a + b

\* Origins: Root, or Signed(account).
Root == [signed |-> FALSE]
Signed(a) == [signed |-> TRUE, who |-> a]

Accounts == {1, 2, 3, 4}

\* T::Validators::validators() is the validator set of the current session,
\* which the runtime supplies (Config::Validators).  The mock runtime has no
\* validators at genesis and no session manager: its set is empty for ever.
\* The pallet's tests have account 1 propose, so the other runtime of the
\* model starts with validators 1, 2, 3 and a new session can bring another
\* set.
MockValidators == {}
InitialValidators == {1, 2, 3}
GenesisValidators == {MockValidators, InitialValidators}
ValidatorSets == {{1, 2, 3}, {2, 3, 4}}

\* Result<T, E>.
Ok(v) == [ok |-> TRUE, val |-> v]
Err(e) == [ok |-> FALSE, err |-> e]

\* frame_system::ensure_signed.
ensure_signed(origin) ==
    IF origin.signed THEN Ok(origin.who) ELSE Err("BadOrigin")

\* T::RegisterOrigin::ensure_origin: EnsureSigned in the mock runtime.
RegisterOrigin_ensure_origin(origin) == ensure_signed(origin)

\* blake2_256 as H256: a hash is written as the tagged preimage (no two
\* documents of the model share a digest); its bytes are H256_as_bytes.
blake2_256(bytes) == <<"blake2_256", bytes>>

VARIABLES
    IssuerMap,                   \* domain -> Issuer
    JwksMap,                     \* domain -> active JWKS
    AccountsProposedForIssuer,   \* domain -> accounts that proposed, in order
    JwksHash,                    \* hash -> JWKS
    CounterProposedJwksHash,     \* <<domain, hash>> -> count
    CounterIntervalUpdateIssuer, \* domain -> count
    events,                      \* events deposited by the last call
    call,                        \* the last call and its arguments
    validators,                  \* T::Validators::validators()
    ballots,                     \* history: <<domain, account>> -> the document
                                 \* of the account's accepted proposal
    result,                      \* what the last call returned
    bearer,                      \* the token handed to the validator crate
    snapshot,                    \* the JwkSet handed to the validator crate
    returned                     \* the validator function last called and
                                 \* what it returned

tables == <<IssuerMap, JwksMap, AccountsProposedForIssuer, JwksHash,
            CounterProposedJwksHash, CounterIntervalUpdateIssuer>>
vars == <<IssuerMap, JwksMap, AccountsProposedForIssuer, JwksHash,
          CounterProposedJwksHash, CounterIntervalUpdateIssuer, events, call,
          validators, ballots, result, bearer, snapshot, returned>>
\* What the validator crate works on: its arguments and its return value.
gateway == <<bearer, snapshot, returned>>

\* A storage map is a function on the keys present.
Empty == << >>
contains_key(m, k) == k \in DOMAIN m
get(m, k) == IF k \in DOMAIN m THEN Some(m[k]) ELSE None
insert(m, k, v) == [x \in DOMAIN m \cup {k} |-> IF x = k THEN v ELSE m[x]]
remove(m, k) == [x \in DOMAIN m \ {k} |-> m[x]]
\* ValueQuery: an absent counter reads as 0.
get_or_default(m, k) == IF k \in DOMAIN m THEN m[k] ELSE 0

\* The overlay a call works on: the tables and the events it deposits.
Storage ==
    [IssuerMap |-> IssuerMap, JwksMap |-> JwksMap,
     AccountsProposedForIssuer |-> AccountsProposedForIssuer,
     JwksHash |-> JwksHash,
     CounterProposedJwksHash |-> CounterProposedJwksHash,
     CounterIntervalUpdateIssuer |-> CounterIntervalUpdateIssuer,
     events |-> << >>]

\* Mutant: the event is dropped.
deposit_event_dropped(st, e) == st

deposit_event(st, e) == [st EXCEPT !.events = Append(@, e)]

\* What a step of a dispatchable gives: its result and the overlay so far.
Outcome(r, st) == [res |-> r, st |-> st]

\* Mutant: no storage layer, the writes made before an error stay.
with_storage_layer_absent(out) == out.st

\* #[pallet::call] runs each dispatchable in a storage layer: the overlay is
\* committed when the call returns Ok and discarded when it returns Err.
with_storage_layer(out) == IF out.res.ok THEN out.st ELSE Storage

Dispatch(c, out) ==
    LET st == with_storage_layer(out)
    IN  /\ IssuerMap' = st.IssuerMap
        /\ JwksMap' = st.JwksMap
        /\ AccountsProposedForIssuer' = st.AccountsProposedForIssuer
        /\ JwksHash' = st.JwksHash
        /\ CounterProposedJwksHash' = st.CounterProposedJwksHash
        /\ CounterIntervalUpdateIssuer' = st.CounterIntervalUpdateIssuer
        /\ events' = st.events
        /\ call' = c
        /\ result' = IF out.res.ok THEN "Ok" ELSE out.res.err
        /\ ballots' = IF c.op = "propose_jwks" /\ out.res.ok
                      THEN insert(ballots, <<c.domain, c.origin.who>>, c.jwks)
                      ELSE ballots
        /\ UNCHANGED <<validators, gateway>>

(***************************************************************************)
(* Helpers of the pallet.                                                  *)
(***************************************************************************)
\* Mutant: the document is checked but not replaced by its serialization.
validate_json_unchanged(json, Len_get) ==
    LET serialized == from_slice_to_string(json)
    IN  IF ~IsSome(serialized) THEN Err("InvalidJson")
        ELSE IF Len(serialized.val) > Len_get THEN Err("JsonTooLong")
        ELSE Ok(json)

\* validate_json: Err, or Ok(the document re-serialized).
validate_json(json, Len_get) ==
    LET serialized == from_slice_to_string(json)
    IN  IF ~IsSome(serialized) THEN Err("InvalidJson")
        ELSE IF Len(serialized.val) > Len_get THEN Err("JsonTooLong")
        ELSE Ok(serialized.val)

Max(a, b) == IF a >= b THEN a ELSE b
Min(a, b) == IF a <= b THEN a ELSE b

\* Mutant: only the upper bound is applied.
validate_interval_update_upper_only(interval_update) ==
    IF IsSome(interval_update)
    THEN Some(Min(interval_update.val, MaxUpdateInterval))
    ELSE None

\* validate_interval_update: (*v).max(lower).min(upper) on Some(v).
validate_interval_update(interval_update) ==
    IF IsSome(interval_update)
    THEN Some(Min(Max(interval_update.val, MinUpdateInterval), MaxUpdateInterval))
    ELSE None

Issuer(url, interval, enabled) ==
    [open_id_url |-> url, interval_update |-> interval, is_enabled |-> enabled]

(***************************************************************************)
(* The dispatchables.  Each is the overlay after its last step, with the   *)
(* writes made before an error still in it; Dispatch commits or discards.  *)
(***************************************************************************)
\* Mutant: no duplicate check, a second registration overwrites the first.
register_issuer_overwrite(origin, domain, open_id_url, jwks, interval_update) ==
    LET who == RegisterOrigin_ensure_origin(origin)
        st1 == [Storage EXCEPT !.IssuerMap =
                   insert(@, domain,
                          Issuer(open_id_url,
                                 validate_interval_update(interval_update), TRUE))]
        json == validate_json(jwks.val, MaxLengthIssuerJWKS)
        st2 == IF IsSome(jwks)
               THEN [st1 EXCEPT !.JwksMap = insert(@, domain, json.val)]
               ELSE st1
    IN  IF ~who.ok THEN Outcome(who, Storage)
        ELSE IF IsSome(jwks) /\ ~json.ok THEN Outcome(json, st1)
        ELSE Outcome(Ok("unit"),
                     deposit_event(st2, [name |-> "IssuerRegistered",
                                         who |-> who.val, domain |-> domain]))

register_issuer(origin, domain, open_id_url, jwks, interval_update) ==
    LET who == RegisterOrigin_ensure_origin(origin)
        st1 == [Storage EXCEPT !.IssuerMap =
                   insert(@, domain,
                          Issuer(open_id_url,
                                 validate_interval_update(interval_update), TRUE))]
        json == validate_json(jwks.val, MaxLengthIssuerJWKS)
        st2 == IF IsSome(jwks)
               THEN [st1 EXCEPT !.JwksMap = insert(@, domain, json.val)]
               ELSE st1
    IN  IF ~who.ok THEN Outcome(who, Storage)
        ELSE IF contains_key(IssuerMap, domain)
             THEN Outcome(Err("IssuerAlreadyExists"), Storage)
        ELSE IF IsSome(jwks) /\ ~json.ok THEN Outcome(json, st1)
        ELSE Outcome(Ok("unit"),
                     deposit_event(st2, [name |-> "IssuerRegistered",
                                         who |-> who.val, domain |-> domain]))

\* Mutant: a partial patch, an absent URL or JWKS keeps the stored one.
update_issuer_patch(origin, domain, open_id_url, jwks, interval_update, is_enabled) ==
    LET who == RegisterOrigin_ensure_origin(origin)
        st1 == [Storage EXCEPT !.IssuerMap =
                   insert(@, domain,
                          Issuer(IF IsSome(open_id_url) THEN open_id_url
                                 ELSE IssuerMap[domain].open_id_url,
                                 validate_interval_update(interval_update),
                                 is_enabled))]
        st2 == IF IsSome(jwks)
               THEN [st1 EXCEPT !.JwksMap = insert(@, domain, jwks.val)]
               ELSE st1
    IN  IF ~who.ok THEN Outcome(who, Storage)
        ELSE IF ~contains_key(IssuerMap, domain)
             THEN Outcome(Err("IssuerDoesNotExist"), Storage)
        ELSE Outcome(Ok("unit"),
                     deposit_event(st2, [name |-> "IssuerUpdated",
                                         who |-> who.val, domain |-> domain]))

update_issuer(origin, domain, open_id_url, jwks, interval_update, is_enabled) ==
    LET who == RegisterOrigin_ensure_origin(origin)
        st1 == [Storage EXCEPT !.IssuerMap =
                   insert(@, domain,
                          Issuer(open_id_url,
                                 validate_interval_update(interval_update),
                                 is_enabled))]
        st2 == [st1 EXCEPT !.JwksMap =
                   IF IsSome(jwks) THEN insert(@, domain, jwks.val)
                   ELSE remove(@, domain)]
    IN  IF ~who.ok THEN Outcome(who, Storage)
        ELSE IF ~contains_key(IssuerMap, domain)
             THEN Outcome(Err("IssuerDoesNotExist"), Storage)
        ELSE Outcome(Ok("unit"),
                     deposit_event(st2, [name |-> "IssuerUpdated",
                                         who |-> who.val, domain |-> domain]))

\* Mutant: the delete also empties the content store.
delete_issuer_purge(origin, domain) ==
    LET who == RegisterOrigin_ensure_origin(origin)
        st1 == [Storage EXCEPT
                   !.IssuerMap = remove(@, domain),
                   !.JwksMap = remove(@, domain),
                   !.CounterIntervalUpdateIssuer = remove(@, domain),
                   !.JwksHash = Empty]
    IN  IF ~who.ok THEN Outcome(who, Storage)
        ELSE IF ~contains_key(IssuerMap, domain)
             THEN Outcome(Err("IssuerDoesNotExist"), Storage)
        ELSE Outcome(Ok("unit"),
                     deposit_event(st1, [name |-> "IssuerDeleted",
                                         who |-> who.val, domain |-> domain]))

\* Mutant: the domain's proposer list is removed with the issuer, its
\* counters are not.
delete_issuer_forget_voters(origin, domain) ==
    LET who == RegisterOrigin_ensure_origin(origin)
        st1 == [Storage EXCEPT
                   !.IssuerMap = remove(@, domain),
                   !.JwksMap = remove(@, domain),
                   !.CounterIntervalUpdateIssuer = remove(@, domain),
                   !.AccountsProposedForIssuer = remove(@, domain)]
    IN  IF ~who.ok THEN Outcome(who, Storage)
        ELSE IF ~contains_key(IssuerMap, domain)
             THEN Outcome(Err("IssuerDoesNotExist"), Storage)
        ELSE Outcome(Ok("unit"),
                     deposit_event(st1, [name |-> "IssuerDeleted",
                                         who |-> who.val, domain |-> domain]))

delete_issuer(origin, domain) ==
    LET who == RegisterOrigin_ensure_origin(origin)
        st1 == [Storage EXCEPT
                   !.IssuerMap = remove(@, domain),
                   !.JwksMap = remove(@, domain),
                   !.CounterIntervalUpdateIssuer = remove(@, domain)]
    IN  IF ~who.ok THEN Outcome(who, Storage)
        ELSE IF ~contains_key(IssuerMap, domain)
             THEN Outcome(Err("IssuerDoesNotExist"), Storage)
        ELSE Outcome(Ok("unit"),
                     deposit_event(st1, [name |-> "IssuerDeleted",
                                         who |-> who.val, domain |-> domain]))

\* The write to the copy returned by IssuerMap::get(..).unwrap() is lost;
\* the try_mutate_exists that follows does the update.
set_update_interval(origin, domain, interval_update) ==
    LET who == RegisterOrigin_ensure_origin(origin)
        v   == validate_interval_update(interval_update)
        st1 == [Storage EXCEPT !.IssuerMap[domain].interval_update = v]
    IN  IF ~who.ok THEN Outcome(who, Storage)
        ELSE IF ~contains_key(IssuerMap, domain)
             THEN Outcome(Err("IssuerDoesNotExist"), Storage)
        ELSE Outcome(Ok("unit"),
                     deposit_event(st1, [name |-> "IssuerIntervalUpdateUpdated",
                                         who |-> who.val, domain |-> domain,
                                         interval_update |-> v]))

\* Mutant: the Issuer is built anew around the flag, its other fields lost.
set_enabled_rebuilt(origin, domain, is_enabled) ==
    LET who == RegisterOrigin_ensure_origin(origin)
        st1 == [Storage EXCEPT
                   !.IssuerMap[domain] = Issuer(None, None, is_enabled)]
    IN  IF ~who.ok THEN Outcome(who, Storage)
        ELSE IF ~contains_key(IssuerMap, domain)
             THEN Outcome(Err("IssuerDoesNotExist"), Storage)
        ELSE Outcome(Ok("unit"),
                     deposit_event(st1, [name |-> "IssuerEnabledUpdated",
                                         who |-> who.val, domain |-> domain,
                                         is_enabled |-> is_enabled]))

\* The early return leaves the closure only: the event is deposited on
\* every Ok.
set_enabled(origin, domain, is_enabled) ==
    LET who == RegisterOrigin_ensure_origin(origin)
        st1 == IF IssuerMap[domain].is_enabled = is_enabled THEN Storage
               ELSE [Storage EXCEPT !.IssuerMap[domain].is_enabled = is_enabled]
    IN  IF ~who.ok THEN Outcome(who, Storage)
        ELSE IF ~contains_key(IssuerMap, domain)
             THEN Outcome(Err("IssuerDoesNotExist"), Storage)
        ELSE Outcome(Ok("unit"),
                     deposit_event(st1, [name |-> "IssuerEnabledUpdated",
                                         who |-> who.val, domain |-> domain,
                                         is_enabled |-> is_enabled]))

set_open_id_url(origin, domain, open_id_url) ==
    LET who == RegisterOrigin_ensure_origin(origin)
        st1 == IF IssuerMap[domain].open_id_url = Some(open_id_url) THEN Storage
               ELSE [Storage EXCEPT
                        !.IssuerMap[domain].open_id_url = Some(open_id_url)]
    IN  IF ~who.ok THEN Outcome(who, Storage)
        ELSE IF ~contains_key(IssuerMap, domain)
             THEN Outcome(Err("IssuerDoesNotExist"), Storage)
        ELSE Outcome(Ok("unit"),
                     deposit_event(st1, [name |-> "IssuerOpenIdURLUpdated",
                                         who |-> who.val, domain |-> domain]))

JwksA == "{\"b\":1, \"a\":2}"
JwksACanonical == "{\"a\":2,\"b\":1}"
JwksB == "{\"k\":[]}"
JwksMalformed == "{\"key\": \"value\""
JwksExpanding == "[1E13]"

(***************************************************************************)
(* BLAKE2b (RFC 7693) without key, as sp_core::hashing computes blake2_256 *)
(* and blake2_128.  A byte is a number in 0..255 and a word of 64 bits is  *)
(* the sequence of its 8 bytes, the least significant first.               *)
(***************************************************************************)
\* The byte of a character of a document: printable ASCII, and the tab,
\* line feed, form feed and carriage return.
ByteCode(c) ==
    CASE c = "\t" -> 9
      [] c = "\n" -> 10
      [] c = "\f" -> 12
      [] c = "\r" -> 13
      [] c = "\\" -> 92
      [] OTHER ->
           LET n == CHOOSE k \in 1..Len(Ascii) : Ch(Ascii, k) = c
           IN  n + 31 + (IF n > 60 THEN 1 ELSE 0) + (IF n > 63 THEN 1 ELSE 0)

\* The bytes of s[a..b].
RECURSIVE as_slice(_, _, _)
as_slice(s, a, b) ==
    IF a > b THEN << >>
    ELSE IF a = b THEN << ByteCode(Ch(s, a)) >>
    ELSE as_slice(s, a, (a + b) \div 2) \o as_slice(s, ((a + b) \div 2) + 1, b)

\* Xor4[a + 1][b + 1] is a XOR b for a, b in 0..15.
Xor4 ==
    << <<0, 1, 2, 3, 4, 5, 6, 7, 8, 9, 10, 11, 12, 13, 14, 15>>,
       <<1, 0, 3, 2, 5, 4, 7, 6, 9, 8, 11, 10, 13, 12, 15, 14>>,
       <<2, 3, 0, 1, 6, 7, 4, 5, 10, 11, 8, 9, 14, 15, 12, 13>>,
       <<3, 2, 1, 0, 7, 6, 5, 4, 11, 10, 9, 8, 15, 14, 13, 12>>,
       <<4, 5, 6, 7, 0, 1, 2, 3, 12, 13, 14, 15, 8, 9, 10, 11>>,
       <<5, 4, 7, 6, 1, 0, 3, 2, 13, 12, 15, 14, 9, 8, 11, 10>>,
       <<6, 7, 4, 5, 2, 3, 0, 1, 14, 15, 12, 13, 10, 11, 8, 9>>,
       <<7, 6, 5, 4, 3, 2, 1, 0, 15, 14, 13, 12, 11, 10, 9, 8>>,
       <<8, 9, 10, 11, 12, 13, 14, 15, 0, 1, 2, 3, 4, 5, 6, 7>>,
       <<9, 8, 11, 10, 13, 12, 15, 14, 1, 0, 3, 2, 5, 4, 7, 6>>,
       <<10, 11, 8, 9, 14, 15, 12, 13, 2, 3, 0, 1, 6, 7, 4, 5>>,
       <<11, 10, 9, 8, 15, 14, 13, 12, 3, 2, 1, 0, 7, 6, 5, 4>>,
       <<12, 13, 14, 15, 8, 9, 10, 11, 4, 5, 6, 7, 0, 1, 2, 3>>,
       <<13, 12, 15, 14, 9, 8, 11, 10, 5, 4, 7, 6, 1, 0, 3, 2>>,
       <<14, 15, 12, 13, 10, 11, 8, 9, 6, 7, 4, 5, 2, 3, 0, 1>>,
       <<15, 14, 13, 12, 11, 10, 9, 8, 7, 6, 5, 4, 3, 2, 1, 0>> >>

Xor8(a, b) ==
    16 * Xor4[(a \div 16) + 1][(b \div 16) + 1] + Xor4[(a % 16) + 1][(b % 16) + 1]

\* The sequence f[1], ..., f[n] of a function f on 1..n.
Tuple(f, n) == SubSeq(f, 1, n)

Xor64(a, b) == Tuple([i \in 1..8 |-> Xor8(a[i], b[i])], 8)

\* Addition of three words modulo 2^64, on parts of 24, 24 and 16 bits.
Bytes3(n) == << n % 256, (n \div 256) % 256, (n \div 65536) % 256 >>
Add64(a, b, c) ==
    LET s0 == (a[1] + 256 * a[2] + 65536 * a[3]) + (b[1] + 256 * b[2] + 65536 * b[3])
              + (c[1] + 256 * c[2] + 65536 * c[3])
        s1 == (a[4] + 256 * a[5] + 65536 * a[6]) + (b[4] + 256 * b[5] + 65536 * b[6])
              + (c[4] + 256 * c[5] + 65536 * c[6]) + (s0 \div 16777216)
        s2 == (a[7] + 256 * a[8]) + (b[7] + 256 * b[8]) + (c[7] + 256 * c[8])
              + (s1 \div 16777216)
    IN  Bytes3(s0) \o Bytes3(s1) \o Tuple(Bytes3(s2 % 65536), 2)

Zero64 == << 0, 0, 0, 0, 0, 0, 0, 0 >>
Ones64 == << 255, 255, 255, 255, 255, 255, 255, 255 >>
Word64(n) == Bytes3(n) \o << 0, 0, 0, 0, 0 >>

\* a XOR b rotated to the right by r bytes, and by 63 bits (to the left by
\* one bit).
XorRotr(a, b, r) ==
    Tuple([i \in 1..8 |-> Xor8(a[((i + r - 1) % 8) + 1], b[((i + r - 1) % 8) + 1])], 8)
XorRotr63(a, b) ==
    Tuple([i \in 1..8 |->
              ((2 * Xor8(a[i], b[i])) % 256)
              + (Xor8(a[((i + 6) % 8) + 1], b[((i + 6) % 8) + 1]) \div 128)], 8)

Blake2bIV ==
    << <<8, 201, 188, 243, 103, 230, 9, 106>>,
       <<59, 167, 202, 132, 133, 174, 103, 187>>,
       <<43, 248, 148, 254, 114, 243, 110, 60>>,
       <<241, 54, 29, 95, 58, 245, 79, 165>>,
       <<209, 130, 230, 173, 127, 82, 14, 81>>,
       <<31, 108, 62, 43, 140, 104, 5, 155>>,
       <<107, 189, 65, 251, 171, 217, 131, 31>>,
       <<121, 33, 126, 19, 25, 205, 224, 91>> >>

\* SIGMA, with the message words counted from 1.
Blake2bSigma ==
    << <<1, 2, 3, 4, 5, 6, 7, 8, 9, 10, 11, 12, 13, 14, 15, 16>>,
       <<15, 11, 5, 9, 10, 16, 14, 7, 2, 13, 1, 3, 12, 8, 6, 4>>,
       <<12, 9, 13, 1, 6, 3, 16, 14, 11, 15, 4, 7, 8, 2, 10, 5>>,
       <<8, 10, 4, 2, 14, 13, 12, 15, 3, 7, 6, 11, 5, 1, 16, 9>>,
       <<10, 1, 6, 8, 3, 5, 11, 16, 15, 2, 12, 13, 7, 9, 4, 14>>,
       <<3, 13, 7, 11, 1, 12, 9, 4, 5, 14, 8, 6, 16, 15, 2, 10>>,
       <<13, 6, 2, 16, 15, 14, 5, 11, 1, 8, 7, 4, 10, 3, 9, 12>>,
       <<14, 12, 8, 15, 13, 2, 4, 10, 6, 1, 16, 5, 9, 7, 3, 11>>,
       <<7, 16, 15, 10, 12, 4, 1, 9, 13, 3, 14, 8, 2, 5, 11, 6>>,
       <<11, 3, 9, 5, 8, 7, 2, 6, 16, 12, 10, 15, 4, 13, 14, 1>> >>

\* The places of the work vector that the eight mixings of a round act on.
Blake2bMixes ==
    << <<1, 5, 9, 13>>, <<2, 6, 10, 14>>, <<3, 7, 11, 15>>, <<4, 8, 12, 16>>,
       <<1, 6, 11, 16>>, <<2, 7, 12, 13>>, <<3, 8, 9, 14>>, <<4, 5, 10, 15>> >>

\* The mixing function G on the places p = <<a, b, c, d>> of the work
\* vector v, with the message words x and y, is eight assignments; this is
\* assignment n of them (from 0):
\*    a = a + b + x;  d = (d ^ a) >>> 32;  c = c + d;  b = (b ^ c) >>> 24;
\*    a = a + b + y;  d = (d ^ a) >>> 16;  c = c + d;  b = (b ^ c) >>> 63.
Blake2bG(v, p, x, y, n) ==
    CASE n \in {0, 4} ->
           [v EXCEPT ![p[1]] = Add64(v[p[1]], v[p[2]], IF n = 0 THEN x ELSE y)]
      [] n \in {1, 5} ->
           [v EXCEPT ![p[4]] = XorRotr(v[p[4]], v[p[1]], IF n = 1 THEN 4 ELSE 2)]
      [] n \in {2, 6} ->
           [v EXCEPT ![p[3]] = Add64(v[p[3]], v[p[4]], Zero64)]
      [] n = 3 ->
           [v EXCEPT ![p[2]] = XorRotr(v[p[2]], v[p[3]], 3)]
      [] n = 7 ->
           [v EXCEPT ![p[2]] = XorRotr63(v[p[2]], v[p[3]])]

\* The twelve rounds are 96 mixings of 8 assignments: assignment k (from
\* 0) belongs to mixing (k \div 8) % 8 of round k \div 64.  Blake2bRounds
\* makes the assignments a..b on vm[1], in order, with the block vm[2].
Blake2bStep(v, m, k) ==
    Blake2bG(v, Blake2bMixes[((k \div 8) % 8) + 1],
             m[Blake2bSigma[((k \div 64) % 10) + 1][2 * ((k \div 8) % 8) + 1]],
             m[Blake2bSigma[((k \div 64) % 10) + 1][2 * ((k \div 8) % 8) + 2]],
             k % 8)

RECURSIVE Blake2bRounds(_, _, _)
Blake2bRounds(vm, a, b) ==
    Bind(<<vm, a, b>>, LAMBDA w :
        IF w[2] = w[3] THEN << Blake2bStep(w[1][1], w[1][2], w[2]), w[1][2] >>
        ELSE Blake2bRounds(Blake2bRounds(w[1], w[2], (w[2] + w[3]) \div 2),
                           ((w[2] + w[3]) \div 2) + 1, w[3]))

\* The end of the compression: the chain value, XOR the two halves of the
\* work vector.
Blake2bFinish(h, work) ==
    Bind(<<h, work>>, LAMBDA w :
        Tuple([i \in 1..8 |-> Xor64(Xor64(w[1][i], w[2][i]), w[2][i + 8])], 8))

\* The compression function F: h is the chain value, m the 16 words of the
\* block, t the number of bytes fed so far, last the flag of the last block.
Blake2bCompress(h, m, t, last) ==
    Blake2bFinish(h,
        Blake2bRounds(<< h \o [Blake2bIV EXCEPT
                                  ![5] = Xor64(@, Word64(t)),
                                  ![7] = IF last THEN Xor64(@, Ones64) ELSE @],
                         m >>, 0, 767)[1])

\* The 16 words of the block that starts after `from` bytes of the input,
\* with zeros past its end.
Blake2bBlock(input, from) ==
    Tuple([j \in 1..16 |->
              Tuple([i \in 1..8 |->
                        IF from + 8 * (j - 1) + i <= Len(input)
                        THEN input[from + 8 * (j - 1) + i] ELSE 0], 8)], 16)

\* The blocks one after the other, from the one that starts after `from`
\* bytes; the last one is the one that holds the last byte (the only,
\* empty, one for the empty input).
RECURSIVE Blake2bUpdate(_, _, _)
Blake2bUpdate(h, input, from) ==
    Bind(<<h, input, from>>, LAMBDA w :
        IF w[3] > 0 /\ w[3] >= Len(w[2]) THEN w[1]
        ELSE Blake2bUpdate(
                 Blake2bCompress(w[1], Blake2bBlock(w[2], w[3]),
                                 IF Len(w[2]) <= w[3] + 128 THEN Len(w[2])
                                 ELSE w[3] + 128,
                                 Len(w[2]) <= w[3] + 128),
                 w[2], w[3] + 128))

\* The digest of nn bytes: the parameter block holds the digest length, no
\* key, fanout 1 and depth 1.
Blake2bDigest(h, nn) ==
    Bind(h, LAMBDA w :
        SubSeq(w[1] \o w[2] \o w[3] \o w[4] \o w[5] \o w[6] \o w[7] \o w[8], 1, nn))

Blake2b(input, nn) ==
    Blake2bDigest(
        Blake2bUpdate([Blake2bIV EXCEPT ![1] = Xor64(@, << nn, 0, 1, 1, 0, 0, 0, 0 >>)],
                      input, 0),
        nn)

\* The 32 bytes of an H256: the digest of the document it was made from.
H256_as_bytes(h) == Blake2b(as_slice(h[2], 1, Len(h[2])), 32)

\* The hasher of the second key of CounterProposedJwksHash: the storage key
\* of a hash is the blake2_128 of its bytes, followed by those bytes.
Blake2_128Concat(h) ==
    Bind(H256_as_bytes(h), LAMBDA bytes : Blake2b(bytes, 16) \o bytes)

\* The storage keys of the hashes of the documents above, computed once.
RECURSIVE StorageKeys(_)
StorageKeys(H) ==
    IF H = {} THEN << >>
    ELSE Bind(CHOOSE h \in H : TRUE,
              LAMBDA h : (h :> Blake2_128Concat(h)) @@ StorageKeys(H \ {h}))

HashedKeys ==
    StorageKeys({blake2_256(j) : j \in {JwksA, JwksACanonical, JwksB,
                                        JwksMalformed, JwksExpanding}})

hashed_key(h) ==
    IF h \in DOMAIN HashedKeys THEN HashedKeys[h] ELSE Blake2_128Concat(h)

\* The order of the storage keys: that of their bytes, from the first on.
KeyLess(a, b) ==
    \E i \in 1..Len(a) : /\ a[i] < b[i]
                          /\ \A n \in 1..(i - 1) : a[n] = b[n]

\* The hashes of a set of pairs <<storage key, hash>>, from the least key
\* to the greatest.
RECURSIVE InKeyOrder(_)
InKeyOrder(K) ==
    Bind(K, LAMBDA keys :
        IF keys = {} THEN << >>
        ELSE InKeyOrder({x \in keys : \E y \in keys : KeyLess(x[1], y[1])})
             \o << (CHOOSE x \in keys : \A y \in keys : ~KeyLess(x[1], y[1]))[2] >>)

\* iter_prefix walks the counters of a domain in the order of their storage
\* keys: an order fixed by the hashes alone, unrelated to the order of
\* insertion.
iter_prefix(counters, domain) ==
    InKeyOrder({<<hashed_key(k[2]), k[2]>> :
                   k \in {x \in DOMAIN counters : x[1] = domain}})

\* Mutant: the first entry is kept, whatever the counters that follow.
RECURSIVE scan_best_first(_, _, _, _, _)
scan_best_first(counters, domain, hashes, i, best) ==
    IF i > Len(hashes) THEN best
    ELSE LET counter == counters[<<domain, hashes[i]>>]
         IN  scan_best_first(counters, domain, hashes, i + 1,
                             IF IsSome(best) THEN best
                             ELSE Some(<<hashes[i], counter>>))

\* Mutant: an entry with an equal counter replaces the best so far.
RECURSIVE scan_best_last_tied(_, _, _, _, _)
scan_best_last_tied(counters, domain, hashes, i, best) ==
    IF i > Len(hashes) THEN best
    ELSE LET counter == counters[<<domain, hashes[i]>>]
         IN  scan_best_last_tied(counters, domain, hashes, i + 1,
                                 IF IsSome(best) /\ counter < best.val[2] THEN best
                                 ELSE Some(<<hashes[i], counter>>))

\* The loop of get_jwks_with_higher_count over hashes[i..]: best is None or
\* Some(<<hash, counter>>); an entry replaces it only with a higher counter.
RECURSIVE scan_best(_, _, _, _, _)
scan_best(counters, domain, hashes, i, best) ==
    IF i > Len(hashes) THEN best
    ELSE LET counter == counters[<<domain, hashes[i]>>]
         IN  scan_best(counters, domain, hashes, i + 1,
                       IF IsSome(best) /\ counter <= best.val[2] THEN best
                       ELSE Some(<<hashes[i], counter>>))

\* Mutant: on a tie the document that is active stays: when the active
\* JWKS of the domain is the document of a hash with the greatest counter,
\* it is the one returned.
get_jwks_with_higher_count_keep_active(st, issuer_domain) ==
    LET hashes == iter_prefix(st.CounterProposedJwksHash, issuer_domain)
        best == scan_best(st.CounterProposedJwksHash, issuer_domain, hashes, 1, None)
        active == get(st.JwksMap, issuer_domain)
        kept == /\ IsSome(best)
                /\ IsSome(active)
                /\ \E n \in DOMAIN hashes :
                      /\ st.CounterProposedJwksHash[<<issuer_domain, hashes[n]>>]
                            = best.val[2]
                      /\ get(st.JwksHash, hashes[n]) = active
    IN  IF kept THEN active.val
        ELSE IF IsSome(best) /\ contains_key(st.JwksHash, best.val[1])
        THEN st.JwksHash[best.val[1]]
        ELSE ""

get_jwks_with_higher_count(st, issuer_domain) ==
    LET best == scan_best(st.CounterProposedJwksHash, issuer_domain,
                          iter_prefix(st.CounterProposedJwksHash, issuer_domain),
                          1, None)
    IN  IF IsSome(best) /\ contains_key(st.JwksHash, best.val[1])
        THEN st.JwksHash[best.val[1]]
        ELSE ""

\* Mutant: no voter is ever found in the list.
contains_never(vec, x) == FALSE

\* Vec::contains.
contains(vec, x) == \E n \in 1..Len(vec) : vec[n] = x

\* Mutant: one element more than the bound is accepted.
try_push_one_more(vec, x, bound) ==
    IF Len(vec) > bound THEN Err("full") ELSE Ok(Append(vec, x))

\* Mutant: the bound is not enforced.
try_push_unbounded(vec, x, bound) == Ok(Append(vec, x))

\* BoundedVec::try_push: an error when the vector holds bound elements.
try_push(vec, x, bound) ==
    IF Len(vec) >= bound THEN Err("full") ELSE Ok(Append(vec, x))

\* Mutant: the issuer is not looked up.
propose_jwks_any_domain(origin, domain, jwks) ==
    LET who == ensure_signed(origin)
        jwks_hash == blake2_256(jwks)
        vec == IF contains_key(AccountsProposedForIssuer, domain)
               THEN AccountsProposedForIssuer[domain] ELSE << >>
        pushed == try_push(vec, who.val, MaxProposersPerIssuer)
        st1 == [Storage EXCEPT !.AccountsProposedForIssuer =
                   insert(@, domain, pushed.val)]
        st2 == IF contains_key(JwksHash, jwks_hash) THEN st1
               ELSE [st1 EXCEPT !.JwksHash = insert(@, jwks_hash, jwks)]
        st3 == [st2 EXCEPT !.CounterProposedJwksHash =
                   insert(@, <<domain, jwks_hash>>,
                          saturating_add(get_or_default(@, <<domain, jwks_hash>>), 1))]
    IN  IF ~who.ok THEN Outcome(who, Storage)
        ELSE IF who.val \notin validators
             THEN Outcome(Err("OnlyValidatorsCanProposeJWKS"), Storage)
        ELSE IF contains(vec, who.val)
             THEN Outcome(Err("AlreadyProposedForJWKS"), Storage)
        ELSE IF ~pushed.ok
             THEN Outcome(Err("MaxProposersPerIssuerExceeded"), Storage)
        ELSE Outcome(Ok("unit"),
                     deposit_event(st3, [name |-> "IssuerJWKSUpdated",
                                         who |-> who.val, domain |-> domain]))

\* Mutant: the hash covers the domain as well as the document.
propose_jwks_hash_with_domain(origin, domain, jwks) ==
    LET who == ensure_signed(origin)
        jwks_hash == blake2_256(domain \o jwks)
        vec == IF contains_key(AccountsProposedForIssuer, domain)
               THEN AccountsProposedForIssuer[domain] ELSE << >>
        pushed == try_push(vec, who.val, MaxProposersPerIssuer)
        st1 == [Storage EXCEPT !.AccountsProposedForIssuer =
                   insert(@, domain, pushed.val)]
        st2 == IF contains_key(JwksHash, jwks_hash) THEN st1
               ELSE [st1 EXCEPT !.JwksHash = insert(@, jwks_hash, jwks)]
        st3 == [st2 EXCEPT !.CounterProposedJwksHash =
                   insert(@, <<domain, jwks_hash>>,
                          saturating_add(get_or_default(@, <<domain, jwks_hash>>), 1))]
    IN  IF ~who.ok THEN Outcome(who, Storage)
        ELSE IF who.val \notin validators
             THEN Outcome(Err("OnlyValidatorsCanProposeJWKS"), Storage)
        ELSE IF ~contains_key(IssuerMap, domain)
             THEN Outcome(Err("IssuerDoesNotExist"), Storage)
        ELSE IF contains(vec, who.val)
             THEN Outcome(Err("AlreadyProposedForJWKS"), Storage)
        ELSE IF ~pushed.ok
             THEN Outcome(Err("MaxProposersPerIssuerExceeded"), Storage)
        ELSE Outcome(Ok("unit"),
                     deposit_event(st3, [name |-> "IssuerJWKSUpdated",
                                         who |-> who.val, domain |-> domain]))

\* Mutant: the issuer is looked up before the caller is checked.
propose_jwks_issuer_first(origin, domain, jwks) ==
    LET who == ensure_signed(origin)
        jwks_hash == blake2_256(jwks)
        vec == IF contains_key(AccountsProposedForIssuer, domain)
               THEN AccountsProposedForIssuer[domain] ELSE << >>
        pushed == try_push(vec, who.val, MaxProposersPerIssuer)
        st1 == [Storage EXCEPT !.AccountsProposedForIssuer =
                   insert(@, domain, pushed.val)]
        st2 == IF contains_key(JwksHash, jwks_hash) THEN st1
               ELSE [st1 EXCEPT !.JwksHash = insert(@, jwks_hash, jwks)]
        st3 == [st2 EXCEPT !.CounterProposedJwksHash =
                   insert(@, <<domain, jwks_hash>>,
                          saturating_add(get_or_default(@, <<domain, jwks_hash>>), 1))]
    IN  IF ~who.ok THEN Outcome(who, Storage)
        ELSE IF ~contains_key(IssuerMap, domain)
             THEN Outcome(Err("IssuerDoesNotExist"), Storage)
        ELSE IF who.val \notin validators
             THEN Outcome(Err("OnlyValidatorsCanProposeJWKS"), Storage)
        ELSE IF contains(vec, who.val)
             THEN Outcome(Err("AlreadyProposedForJWKS"), Storage)
        ELSE IF ~pushed.ok
             THEN Outcome(Err("MaxProposersPerIssuerExceeded"), Storage)
        ELSE Outcome(Ok("unit"),
                     deposit_event(st3, [name |-> "IssuerJWKSUpdated",
                                         who |-> who.val, domain |-> domain]))

\* Mutant: the counter is bumped but a new document is not stored.
propose_jwks_blob_unstored(origin, domain, jwks) ==
    LET who == ensure_signed(origin)
        jwks_hash == blake2_256(jwks)
        vec == IF contains_key(AccountsProposedForIssuer, domain)
               THEN AccountsProposedForIssuer[domain] ELSE << >>
        pushed == try_push(vec, who.val, MaxProposersPerIssuer)
        st1 == [Storage EXCEPT !.AccountsProposedForIssuer =
                   insert(@, domain, pushed.val)]
        st3 == [st1 EXCEPT !.CounterProposedJwksHash =
                   insert(@, <<domain, jwks_hash>>,
                          saturating_add(get_or_default(@, <<domain, jwks_hash>>), 1))]
    IN  IF ~who.ok THEN Outcome(who, Storage)
        ELSE IF who.val \notin validators
             THEN Outcome(Err("OnlyValidatorsCanProposeJWKS"), Storage)
        ELSE IF ~contains_key(IssuerMap, domain)
             THEN Outcome(Err("IssuerDoesNotExist"), Storage)
        ELSE IF contains(vec, who.val)
             THEN Outcome(Err("AlreadyProposedForJWKS"), Storage)
        ELSE IF ~pushed.ok
             THEN Outcome(Err("MaxProposersPerIssuerExceeded"), Storage)
        ELSE Outcome(Ok("unit"),
                     deposit_event(st3, [name |-> "IssuerJWKSUpdated",
                                         who |-> who.val, domain |-> domain]))

propose_jwks(origin, domain, jwks) ==
    LET who == ensure_signed(origin)
        jwks_hash == blake2_256(jwks)
        vec == IF contains_key(AccountsProposedForIssuer, domain)
               THEN AccountsProposedForIssuer[domain] ELSE << >>
        pushed == try_push(vec, who.val, MaxProposersPerIssuer)
        st1 == [Storage EXCEPT !.AccountsProposedForIssuer =
                   insert(@, domain, pushed.val)]
        st2 == IF contains_key(JwksHash, jwks_hash) THEN st1
               ELSE [st1 EXCEPT !.JwksHash = insert(@, jwks_hash, jwks)]
        st3 == [st2 EXCEPT !.CounterProposedJwksHash =
                   insert(@, <<domain, jwks_hash>>,
                          saturating_add(get_or_default(@, <<domain, jwks_hash>>), 1))]
    IN  IF ~who.ok THEN Outcome(who, Storage)
        ELSE IF who.val \notin validators
             THEN Outcome(Err("OnlyValidatorsCanProposeJWKS"), Storage)
        ELSE IF ~contains_key(IssuerMap, domain)
             THEN Outcome(Err("IssuerDoesNotExist"), Storage)
        ELSE IF contains(vec, who.val)
             THEN Outcome(Err("AlreadyProposedForJWKS"), Storage)
        ELSE IF ~pushed.ok
             THEN Outcome(Err("MaxProposersPerIssuerExceeded"), Storage)
        ELSE Outcome(Ok("unit"),
                     deposit_event(st3, [name |-> "IssuerJWKSUpdated",
                                         who |-> who.val, domain |-> domain]))

\* Mutant: the event is deposited whether the JWKS changed or not.
set_jwks_always_notify(origin, domain) ==
    LET who == ensure_signed(origin)
        winning_jwks == get_jwks_with_higher_count(Storage, domain)
        st1 == [Storage EXCEPT !.JwksMap = insert(@, domain, winning_jwks)]
    IN  IF ~who.ok THEN Outcome(who, Storage)
        ELSE IF who.val \notin validators
             THEN Outcome(Err("OnlyValidatorsCanProposeJWKS"), Storage)
        ELSE IF ~contains_key(IssuerMap, domain)
             THEN Outcome(Err("IssuerDoesNotExist"), Storage)
        ELSE Outcome(Ok("unit"),
                     deposit_event(st1, [name |-> "IssuerJWKSUpdated",
                                         who |-> who.val, domain |-> domain]))

\* Mutant: without proposals the active JWKS is kept.
set_jwks_keep_when_empty(origin, domain) ==
    LET who == ensure_signed(origin)
        winning_jwks == get_jwks_with_higher_count(Storage, domain)
        changed == /\ get(JwksMap, domain) # Some(winning_jwks)
                   /\ \E k \in DOMAIN CounterProposedJwksHash : k[1] = domain
        st1 == [Storage EXCEPT !.JwksMap = insert(@, domain, winning_jwks)]
    IN  IF ~who.ok THEN Outcome(who, Storage)
        ELSE IF who.val \notin validators
             THEN Outcome(Err("OnlyValidatorsCanProposeJWKS"), Storage)
        ELSE IF ~contains_key(IssuerMap, domain)
             THEN Outcome(Err("IssuerDoesNotExist"), Storage)
        ELSE IF changed
             THEN Outcome(Ok("unit"),
                          deposit_event(st1, [name |-> "IssuerJWKSUpdated",
                                              who |-> who.val, domain |-> domain]))
        ELSE Outcome(Ok("unit"), Storage)

\* Mutant: a tally that installs a document starts a new round: the
\* domain's counters are removed.
set_jwks_reset_votes(origin, domain) ==
    LET who == ensure_signed(origin)
        winning_jwks == get_jwks_with_higher_count(Storage, domain)
        changed == get(JwksMap, domain) # Some(winning_jwks)
        st1 == [Storage EXCEPT
                   !.JwksMap = insert(@, domain, winning_jwks),
                   !.CounterProposedJwksHash =
                       [k \in {x \in DOMAIN @ : x[1] # domain} |-> @[k]]]
    IN  IF ~who.ok THEN Outcome(who, Storage)
        ELSE IF who.val \notin validators
             THEN Outcome(Err("OnlyValidatorsCanProposeJWKS"), Storage)
        ELSE IF ~contains_key(IssuerMap, domain)
             THEN Outcome(Err("IssuerDoesNotExist"), Storage)
        ELSE IF changed
             THEN Outcome(Ok("unit"),
                          deposit_event(st1, [name |-> "IssuerJWKSUpdated",
                                              who |-> who.val, domain |-> domain]))
        ELSE Outcome(Ok("unit"), Storage)

set_jwks(origin, domain) ==
    LET who == ensure_signed(origin)
        winning_jwks == get_jwks_with_higher_count(Storage, domain)
        changed == get(JwksMap, domain) # Some(winning_jwks)
        st1 == [Storage EXCEPT !.JwksMap = insert(@, domain, winning_jwks)]
    IN  IF ~who.ok THEN Outcome(who, Storage)
        ELSE IF who.val \notin validators
             THEN Outcome(Err("OnlyValidatorsCanProposeJWKS"), Storage)
        ELSE IF ~contains_key(IssuerMap, domain)
             THEN Outcome(Err("IssuerDoesNotExist"), Storage)
        ELSE IF changed
             THEN Outcome(Ok("unit"),
                          deposit_event(st1, [name |-> "IssuerJWKSUpdated",
                                              who |-> who.val, domain |-> domain]))
        ELSE Outcome(Ok("unit"), Storage)

\* Mutant: the hook clears the proposals, as its commented-out lines would.
on_finalize_clearing(st) ==
    [st EXCEPT !.AccountsProposedForIssuer = Empty,
               !.CounterProposedJwksHash = Empty]

\* The hook only logs.
on_finalize(st) == st

(***************************************************************************)
(* Inputs: the calls of a run are drawn from a table of calls.             *)
(***************************************************************************)
Opt(S) == {None} \cup {Some(x) : x \in S}

Domains == {d \in {"a.io", "b.io"} : Len(d) <= MaxLengthIssuerDomain}

Urls == {u \in {"u1", "u2"} : Len(u) <= MaxLengthIssuerOpenIdURL}

JwksDocs == {j \in {JwksA, JwksACanonical, JwksB, JwksMalformed, JwksExpanding} :
                Len(j) <= MaxLengthIssuerJWKS}

RegisterCalls(O, D, U, J, I) ==
    {[op |-> "register_issuer", origin |-> o, domain |-> d, open_id_url |-> u,
      jwks |-> j, interval_update |-> i] :
        o \in O, d \in D, u \in U, j \in J, i \in I}

UpdateCalls(O, D, U, J, I, E) ==
    {[op |-> "update_issuer", origin |-> x[1], domain |-> x[2],
      open_id_url |-> x[3], jwks |-> x[4], interval_update |-> x[5],
      is_enabled |-> x[6]] : x \in O \X D \X U \X J \X I \X E}

DeleteCalls(O, D) ==
    {[op |-> "delete_issuer", origin |-> o, domain |-> d] : o \in O, d \in D}

SetUpdateIntervalCalls(O, D, I) ==
    {[op |-> "set_update_interval", origin |-> o, domain |-> d,
      interval_update |-> i] : o \in O, d \in D, i \in I}

SetEnabledCalls(O, D, E) ==
    {[op |-> "set_enabled", origin |-> o, domain |-> d, is_enabled |-> e] :
        o \in O, d \in D, e \in E}

SetOpenIdUrlCalls(O, D, U) ==
    {[op |-> "set_open_id_url", origin |-> o, domain |-> d, open_id_url |-> u] :
        o \in O, d \in D, u \in U}

ProposeCalls(O, D, J) ==
    {[op |-> "propose_jwks", origin |-> o, domain |-> d, jwks |-> j] :
        o \in O, d \in D, j \in J}

SetJwksCalls(O, D) ==
    {[op |-> "set_jwks", origin |-> o, domain |-> d] : o \in O, d \in D}

\* The registry in breadth, with one proposal and its tally.
RegistryCalls ==
    [register_issuer |->
        RegisterCalls({Root, Signed(1)}, Domains, Opt({"u1"}),
                      Opt(JwksDocs \ {JwksACanonical, JwksB}), Opt({5, 500})),
     update_issuer |->
        UpdateCalls({Root, Signed(1)}, Domains, Opt({"u2"}), Opt({JwksB}),
                    Opt({2000}), BOOLEAN),
     delete_issuer |-> DeleteCalls({Root, Signed(1)}, Domains),
     set_update_interval |->
        SetUpdateIntervalCalls({Root, Signed(1)}, Domains, Opt({5, 500, 2000})),
     set_enabled |-> SetEnabledCalls({Root, Signed(1)}, Domains, BOOLEAN),
     set_open_id_url |-> SetOpenIdUrlCalls({Root, Signed(1)}, Domains, Urls),
     propose_jwks |-> ProposeCalls({Signed(1)}, {"a.io"}, {JwksB}),
     set_jwks |-> SetJwksCalls({Signed(1)}, {"a.io"})]

\* The proposals in breadth, on a registry of few shapes.
VotingCalls ==
    [register_issuer |->
        RegisterCalls({Root, Signed(4)}, Domains, {Some("u1")},
                      Opt({JwksA}), {None}),
     update_issuer |->
        UpdateCalls({Signed(4)}, Domains, {Some("u1")}, {None}, {None}, {TRUE}),
     delete_issuer |-> DeleteCalls({Root, Signed(4)}, Domains),
     set_update_interval |-> SetUpdateIntervalCalls({Signed(4)}, Domains, {None}),
     set_enabled |-> SetEnabledCalls({Signed(4)}, Domains, {TRUE}),
     set_open_id_url |-> SetOpenIdUrlCalls({Signed(4)}, Domains, {"u1"}),
     propose_jwks |->
        ProposeCalls({Signed(1)}, {"a.io"}, {JwksA, JwksB})
        \cup ProposeCalls({Signed(2)}, {"a.io"}, {JwksACanonical, JwksB})
        \cup ProposeCalls({Signed(3)}, {"a.io"}, {JwksB, JwksMalformed})
        \cup ProposeCalls({Signed(4)}, {"a.io"}, {JwksB})
        \cup ProposeCalls({Root, Signed(1)}, {"b.io"}, {JwksB}),
     set_jwks |-> SetJwksCalls({Root, Signed(1), Signed(4)}, Domains)]

(***************************************************************************)
(* The validator crate (src/validator/src/lib.rs): pure functions of a     *)
(* token and a JwkSet.  A token is a string; its segments are separated by *)
(* ".".  Base64url and the RSA arithmetic of jsonwebtoken are tables: a    *)
(* header segment stands for the header it decodes to, a signature segment *)
(* for the key and the message it was made with, and any other segment is  *)
(* not decodable.                                                          *)
(***************************************************************************)
\* str::split(pat): the pieces between the separators; "" gives one empty
\* piece.
RECURSIVE split(_, _)
split(s, pat) ==
    LET dots == {i \in 1..Len(s) : Ch(s, i) = pat}
    IN  IF dots = {} THEN <<s>>
        ELSE LET i == CHOOSE d \in dots : \A o \in dots : d <= o
             IN  <<Sub(s, 1, i - 1)>> \o split(Sub(s, i + 1, Len(s)), pat)

\* Iterator::nth(n), counted from 0.
nth(seq, n) == IF n + 1 <= Len(seq) THEN Some(seq[n + 1]) ELSE None

\* jsonwebtoken Header::from_encoded: base64url, then JSON, of a header
\* segment.
Header_from_encoded(segment) ==
    CASE segment = "hk1" -> Ok([alg |-> "RS256", kid |-> Some("k1")])
      [] segment = "hk2" -> Ok([alg |-> "RS256", kid |-> Some("k2")])
      [] segment = "hk3" -> Ok([alg |-> "RS256", kid |-> Some("k3")])
      [] segment = "hk9" -> Ok([alg |-> "RS256", kid |-> Some("k9")])
      [] segment = "hke" -> Ok([alg |-> "RS256", kid |-> Some("")])
      [] segment = "hno" -> Ok([alg |-> "RS256", kid |-> None])
      [] OTHER -> Err("InvalidToken")

\* jsonwebtoken decode_header: the token is cut at its last dot and what is
\* left at its last dot again (rsplitn(2, '.'), two pieces required each
\* time); what is left of both is decoded as the header.
decode_header(token) ==
    LET segments == split(token, ".")
        n == Len(segments)
    IN  IF n < 3 THEN Err("InvalidToken")
        ELSE Header_from_encoded(
                 Sub(token, 1, Len(token) - Len(segments[n])
                                          - Len(segments[n - 1]) - 2))

\* base64url of the signatures of the model: who signed what.  "n1", "n2"
\* and "n9" are RSA moduli ("n9" is in no JwkSet of the model).
b64_decode_signature(segment) ==
    CASE segment = "s1hp" -> Ok([n |-> "n1", e |-> "e", message |-> "hk1.p"])
      [] segment = "s1p" -> Ok([n |-> "n1", e |-> "e", message |-> "p"])
      [] segment = "s2hp" -> Ok([n |-> "n2", e |-> "e", message |-> "hk2.p"])
      [] segment = "s9hp" -> Ok([n |-> "n9", e |-> "e", message |-> "hk1.p"])
      [] OTHER -> Err("Base64")

\* DecodingKey::from_rsa_components: both components must be base64url.
from_rsa_components(n, e) ==
    IF n \in {"n1", "n2", "n9"} /\ e = "e" THEN Ok([n |-> n, e |-> e])
    ELSE Err("Base64")

\* jsonwebtoken::crypto::verify with RS256 and a key given by components:
\* an error when the signature is not base64url, else whether the signature
\* is one of the message under the key.
verify(signature, message, key) ==
    LET decoded == b64_decode_signature(signature)
    IN  IF ~decoded.ok THEN Err("Base64")
        ELSE Ok(decoded.val = [n |-> key.n, e |-> key.e, message |-> message])

get_public_key(jwk) ==
    IF jwk.algorithm = "RSA"
    THEN LET key == from_rsa_components(jwk.n, jwk.e)
         IN  IF key.ok THEN Some(key.val) ELSE None
    ELSE None

get_kid_from_token(the_header) ==
    IF IsSome(the_header.kid) /\ the_header.kid.val # ""
    THEN Some(the_header.kid.val)
    ELSE None

\* The first key of the set with this key id.
get_jwk(jwt_kid, jwks) ==
    LET found == {i \in 1..Len(jwks) : jwks[i].key_id = Some(jwt_kid)}
    IN  IF found = {} THEN None
        ELSE Some(jwks[CHOOSE i \in found : \A j \in found : i <= j])

get_signature(token) == nth(split(token, "."), 2)

get_message(token) == nth(split(token, "."), 1)

verify_jwt(token, jwks) ==
    LET token_header == decode_header(token)
    IN  IF ~token_header.ok THEN Err("InvalidJwt")
    ELSE LET jwt_kid == get_kid_from_token(token_header.val)
    IN  IF ~IsSome(jwt_kid) THEN Err("InvalidJwt")
    ELSE LET jwk == get_jwk(jwt_kid.val, jwks)
    IN  IF ~IsSome(jwk) THEN Err("NoJwkForKid")
    ELSE LET decode_key == get_public_key(jwk.val)
    IN  IF ~IsSome(decode_key) THEN Err("NotPossibleToGetDecodeKey")
    ELSE LET signature == get_signature(token)
    IN  IF ~IsSome(signature) THEN Err("NoSignaturePresent")
    ELSE LET message == get_message(token)
    IN  IF ~IsSome(message) THEN Err("NoSignaturePresent")
    ELSE LET verified == verify(signature.val, message.val, decode_key.val)
    IN  IF verified.ok THEN verified ELSE Err("ErrorVerifying")

\* No validator function has been called yet.
NoCall == [fn |-> "none"]

\* The tokens and the key sets the validator functions are called with.
Jwk(kid, algorithm, n) == [key_id |-> kid, algorithm |-> algorithm, n |-> n, e |-> "e"]
HeaderSegments == {"hk1", "hk2", "hk3", "hk9", "hke", "hno", "junk"}
PayloadSegments == {"p", "q"}
SignatureSegments == {"s1hp", "s1p", "s2hp", "s9hp", "!!"}
Tokens ==
    {"", "aaa", "aaa.bbb", "aaa.bbb.ccc", "aaa.bbb.ccc.ddd"}
    \cup HeaderSegments
    \cup {h \o "." \o p : h \in HeaderSegments, p \in PayloadSegments}
    \cup {h \o "." \o p \o "." \o s :
             h \in HeaderSegments, p \in PayloadSegments, s \in SignatureSegments}
    \cup {h \o "." \o p \o "." \o s \o ".x" :
             h \in {"hk1"}, p \in PayloadSegments, s \in SignatureSegments}
JwkSets ==
    {<< >>,
     <<Jwk(Some("k1"), "RSA", "n1"), Jwk(Some("k2"), "RSA", "n2")>>,
     <<Jwk(None, "RSA", "n2"), Jwk(Some("k3"), "EllipticCurve", "n1"),
       Jwk(Some("k1"), "RSA", "n1")>>,
     <<Jwk(Some("k1"), "RSA", "!!"), Jwk(Some("k1"), "RSA", "n1")>>,
     <<Jwk(Some("k1"), "RSA", "n2"), Jwk(Some("k2"), "RSA", "n1")>>}

(***************************************************************************)
(* Actions.  A block holds one call: the call is dispatched, then the      *)
(* block is finalized and the next one starts with no events.              *)
(***************************************************************************)
Idle == call.op = "none"

RegisterIssuer(calls) ==
    /\ Idle
    /\ \E c \in calls.register_issuer :
        Dispatch(c, register_issuer(c.origin, c.domain, c.open_id_url, c.jwks,
                                    c.interval_update))

UpdateIssuer(calls) ==
    /\ Idle
    /\ \E c \in calls.update_issuer :
        Dispatch(c, update_issuer(c.origin, c.domain, c.open_id_url, c.jwks,
                                  c.interval_update, c.is_enabled))

DeleteIssuer(calls) ==
    /\ Idle
    /\ \E c \in calls.delete_issuer : Dispatch(c, delete_issuer(c.origin, c.domain))

SetUpdateInterval(calls) ==
    /\ Idle
    /\ \E c \in calls.set_update_interval :
        Dispatch(c, set_update_interval(c.origin, c.domain, c.interval_update))

SetEnabled(calls) ==
    /\ Idle
    /\ \E c \in calls.set_enabled :
        Dispatch(c, set_enabled(c.origin, c.domain, c.is_enabled))

SetOpenIdUrl(calls) ==
    /\ Idle
    /\ \E c \in calls.set_open_id_url :
        Dispatch(c, set_open_id_url(c.origin, c.domain, c.open_id_url))

ProposeJwks(calls) ==
    /\ Idle
    /\ \E c \in calls.propose_jwks :
        Dispatch(c, propose_jwks(c.origin, c.domain, c.jwks))

SetJwks(calls) ==
    /\ Idle
    /\ \E c \in calls.set_jwks : Dispatch(c, set_jwks(c.origin, c.domain))

\* on_finalize, then frame_system resets the events for the next block.
FinalizeBlock ==
    /\ ~Idle
    /\ Dispatch([op |-> "none"], Outcome(Ok("unit"), on_finalize(Storage)))

\* A new session starts between two blocks, with another validator set, in
\* the runtime that has validators (in the mock runtime a new session keeps
\* the empty set).  The pallet's tables are not touched.
RotateSession ==
    /\ Idle
    /\ validators # MockValidators
    /\ \E v \in ValidatorSets \ {validators} : validators' = v
    /\ UNCHANGED <<tables, events, call, ballots, result, gateway>>

\* The validator crate is called on a token and a key set; it has no access
\* to the pallet's storage.
VerifyJwt ==
    /\ returned' = [fn |-> "verify_jwt", value |-> verify_jwt(bearer, snapshot)]
    /\ UNCHANGED <<tables, events, call, validators, ballots, result,
                   bearer, snapshot>>

GetSignature ==
    /\ returned' = [fn |-> "get_signature", value |-> get_signature(bearer)]
    /\ UNCHANGED <<tables, events, call, validators, ballots, result,
                   bearer, snapshot>>

GetMessage ==
    /\ returned' = [fn |-> "get_message", value |-> get_message(bearer)]
    /\ UNCHANGED <<tables, events, call, validators, ballots, result,
                   bearer, snapshot>>

Init ==
    /\ IssuerMap = Empty
    /\ JwksMap = Empty
    /\ AccountsProposedForIssuer = Empty
    /\ JwksHash = Empty
    /\ CounterProposedJwksHash = Empty
    /\ CounterIntervalUpdateIssuer = Empty
    /\ events = << >>
    /\ call = [op |-> "none"]
    /\ validators \in GenesisValidators
    /\ ballots = Empty
    /\ result = "Ok"
    /\ bearer = ""
    /\ snapshot = << >>
    /\ returned = NoCall

\* The validator crate, called with any token and key set of the model.
InitValidator ==
    /\ IssuerMap = Empty
    /\ JwksMap = Empty
    /\ AccountsProposedForIssuer = Empty
    /\ JwksHash = Empty
    /\ CounterProposedJwksHash = Empty
    /\ CounterIntervalUpdateIssuer = Empty
    /\ events = << >>
    /\ call = [op |-> "none"]
    /\ validators = MockValidators
    /\ ballots = Empty
    /\ result = "Ok"
    /\ bearer \in Tokens
    /\ snapshot \in JwkSets
    /\ returned = NoCall

Next ==
    \/ RegisterIssuer(VotingCalls)
    \/ UpdateIssuer(VotingCalls)
    \/ DeleteIssuer(VotingCalls)
    \/ SetUpdateInterval(VotingCalls)
    \/ SetEnabled(VotingCalls)
    \/ SetOpenIdUrl(VotingCalls)
    \/ ProposeJwks(VotingCalls)
    \/ SetJwks(VotingCalls)
    \/ FinalizeBlock
    \/ RotateSession

NextRegistry ==
    \/ RegisterIssuer(RegistryCalls)
    \/ UpdateIssuer(RegistryCalls)
    \/ DeleteIssuer(RegistryCalls)
    \/ SetUpdateInterval(RegistryCalls)
    \/ SetEnabled(RegistryCalls)
    \/ SetOpenIdUrl(RegistryCalls)
    \/ ProposeJwks(RegistryCalls)
    \/ SetJwks(RegistryCalls)
    \/ FinalizeBlock

Spec == Init /\ [][Next]_vars

SpecRegistry == Init /\ [][NextRegistry]_vars

NextValidator ==
    \/ VerifyJwt
    \/ GetSignature
    \/ GetMessage

SpecValidator == InitValidator /\ [][NextValidator]_vars
(***************************************************************************)
(* Properties.  A state with call.op # "none" is the state right after     *)
(* that call; the state before it is the previous one.                     *)
(***************************************************************************)
After(op) == call.op = op
AfterOk(op) == call.op = op /\ result = "Ok"

\* The interval the specification asks to be stored for a proposed one.
ClampedInterval(interval) ==
    IF IsSome(interval)
    THEN Some(Max(MinUpdateInterval, Min(interval.val, MaxUpdateInterval)))
    ELSE None

\* The canonical form of an optional JWKS argument.
CanonicalJwks(jwks) == IF IsSome(jwks) THEN from_slice_to_string(jwks.val) ELSE None

\* C1: a register by an authorized caller of a domain that is registered
\* returns IssuerAlreadyExists and leaves every table as it was, whatever
\* the other arguments are.
C1_DuplicateRegisterRejected ==
    [][(/\ call'.op = "register_issuer"
        /\ call'.origin.signed
        /\ contains_key(IssuerMap, call'.domain))
       => (result' = "IssuerAlreadyExists" /\ UNCHANGED tables)]_vars

\* A rejected second registration whose arguments differ from what the
\* first one left: another URL, a JWKS where none is active, a disabled
\* issuer.
C1_Witness ==
    /\ After("register_issuer")
    /\ result = "IssuerAlreadyExists"
    /\ IssuerMap[call.domain].open_id_url # call.open_id_url
    /\ ~IssuerMap[call.domain].is_enabled
    /\ IsSome(call.jwks)
    /\ ~contains_key(JwksMap, call.domain)

\* C2: a register that fails on its JWKS (InvalidJson or JsonTooLong) leaves
\* no Issuer and no active JWKS for the domain and deposits no event, and
\* registering the domain again is not answered IssuerAlreadyExists.
C2_RegisterAllOrNothing ==
    (After("register_issuer") /\ result \in {"InvalidJson", "JsonTooLong"})
    => /\ ~contains_key(IssuerMap, call.domain)
       /\ ~contains_key(JwksMap, call.domain)
       /\ events = << >>
       /\ \A j \in {call.jwks, None} :
            register_issuer(call.origin, call.domain, call.open_id_url, j,
                            call.interval_update).res
              # Err("IssuerAlreadyExists")
       /\ register_issuer(call.origin, call.domain, call.open_id_url, None,
                          call.interval_update).res.ok

\* A register that failed after canonicalization: the document fits the
\* bound, its serialization does not.
C2_Witness ==
    /\ After("register_issuer")
    /\ result = "JsonTooLong"
    /\ Len(call.jwks.val) <= MaxLengthIssuerJWKS
    /\ ~contains_key(IssuerMap, call.domain)

\* C3: after a successful register with a JWKS A, the Issuer is enabled, its
\* URL is the one given and the active JWKS is A in canonical form (compact,
\* keys in byte order).
C3_RegisterStoresCanonicalJwks ==
    (AfterOk("register_issuer") /\ IsSome(call.jwks))
    => /\ contains_key(IssuerMap, call.domain)
       /\ IssuerMap[call.domain].is_enabled
       /\ IssuerMap[call.domain].open_id_url = call.open_id_url
       /\ get(JwksMap, call.domain) = CanonicalJwks(call.jwks)
       /\ call.jwks.val = "{\"b\":1, \"a\":2}"
            => JwksMap[call.domain] = "{\"a\":2,\"b\":1}"

\* A successful register whose JWKS was not in canonical form.
C3_Witness ==
    /\ AfterOk("register_issuer")
    /\ call.jwks = Some(JwksA)
    /\ JwksMap[call.domain] = JwksACanonical
    /\ JwksMap[call.domain] # call.jwks.val

InRange(interval) ==
    /\ IsSome(interval)
    /\ MinUpdateInterval <= interval.val
    /\ interval.val <= MaxUpdateInterval

\* C4: after a successful register with an interval in [Min, Max], the
\* tables read back the URL, the interval, is_enabled = true and an active
\* JWKS equal to the jwks argument byte for byte, as
\* test_register_issuer_success asserts.
C4_RegisterRoundTripExact ==
    (AfterOk("register_issuer") /\ InRange(call.interval_update))
    => /\ IssuerMap[call.domain] = Issuer(call.open_id_url, call.interval_update, TRUE)
       /\ get(JwksMap, call.domain) = call.jwks

\* C5: a successful register, update or set_update_interval with interval
\* Some(v) stores max(Min, min(v, Max)), with None stores None, and none of
\* them answers with an interval error.
C5_IntervalClamp ==
    (call.op \in {"register_issuer", "update_issuer", "set_update_interval"})
    => /\ result \notin {"IssuerUpdateIntervalAboveMax",
                         "IssuerUpdateIntervalNotMultipleOfBlock"}
       /\ result = "Ok"
            => IssuerMap[call.domain].interval_update
                 = ClampedInterval(call.interval_update)

\* An update that stored the upper bound for a value above it.
C5_Witness ==
    /\ AfterOk("update_issuer")
    /\ call.interval_update = Some(2000)
    /\ IssuerMap[call.domain].interval_update = Some(1000)

\* C6: after a successful update the Issuer holds exactly the URL given
\* (None when absent), the clamped interval and the enabled flag given, and
\* the active JWKS is the jwks given, or absent when none is given.
C6_UpdateFullReplace ==
    AfterOk("update_issuer")
    => /\ IssuerMap[call.domain]
            = Issuer(call.open_id_url, ClampedInterval(call.interval_update),
                     call.is_enabled)
       /\ get(JwksMap, call.domain) = call.jwks

\* An update with no URL and no JWKS: both are gone.
C6_Witness ==
    /\ AfterOk("update_issuer")
    /\ call.open_id_url = None
    /\ call.jwks = None
    /\ IssuerMap[call.domain].open_id_url = None
    /\ ~contains_key(JwksMap, call.domain)
    /\ ~call.is_enabled

HasCounter(domain) == \E k \in DOMAIN CounterProposedJwksHash : k[1] = domain

\* C7, as claimed: after a successful delete the domain has no Issuer, no
\* active JWKS, no interval counter, no proposer list and no vote counter.
C7_DeleteRemovesEverything ==
    AfterOk("delete_issuer")
    => /\ ~contains_key(IssuerMap, call.domain)
       /\ ~contains_key(JwksMap, call.domain)
       /\ ~contains_key(CounterIntervalUpdateIssuer, call.domain)
       /\ ~contains_key(AccountsProposedForIssuer, call.domain)
       /\ ~HasCounter(call.domain)

\* C8, as claimed: every domain with an active JWKS, a proposer list or a
\* vote counter has an Issuer.
C8_ReferentialIntegrity ==
    \A d \in Domains :
        (\/ contains_key(JwksMap, d)
         \/ contains_key(AccountsProposedForIssuer, d)
         \/ HasCounter(d))
        => contains_key(IssuerMap, d)

AuthorizedFor(c) ==
    /\ c.origin.signed
    /\ c.op \in {"propose_jwks", "set_jwks"} => c.origin.who \in validators

\* C9: update, delete, set_update_interval, set_enabled, set_open_id_url,
\* propose and tally by an authorized caller on a domain without Issuer
\* return IssuerDoesNotExist, write no table and deposit no event.
C9_UnknownDomainRejected ==
    [][(/\ call'.op \in {"update_issuer", "delete_issuer", "set_update_interval",
                         "set_enabled", "set_open_id_url", "propose_jwks",
                         "set_jwks"}
        /\ AuthorizedFor(call')
        /\ ~contains_key(IssuerMap, call'.domain))
       => (/\ result' = "IssuerDoesNotExist"
           /\ UNCHANGED tables
           /\ events' = << >>)]_vars

\* A proposal by a validator for a domain that has no Issuer (any more).
C9_Witness ==
    /\ After("propose_jwks")
    /\ result = "IssuerDoesNotExist"
    /\ call.origin.who \in validators
    /\ ~contains_key(IssuerMap, call.domain)

\* C10, as claimed: set_enabled with the flag the Issuer already has returns
\* Ok, writes no table and deposits no event.
C10_SetEnabledNoOp ==
    [][(/\ call'.op = "set_enabled"
        /\ call'.origin.signed
        /\ contains_key(IssuerMap, call'.domain)
        /\ IssuerMap[call'.domain].is_enabled = call'.is_enabled)
       => (/\ result' = "Ok"
           /\ UNCHANGED tables
           /\ events' = << >>)]_vars

\* C11, as claimed: set_open_id_url with the URL the Issuer already has
\* returns Ok, writes no table and deposits no event.
C11_SetOpenIdUrlNoOp ==
    [][(/\ call'.op = "set_open_id_url"
        /\ call'.origin.signed
        /\ contains_key(IssuerMap, call'.domain)
        /\ IssuerMap[call'.domain].open_id_url = Some(call'.open_id_url))
       => (/\ result' = "Ok"
           /\ UNCHANGED tables
           /\ events' = << >>)]_vars

\* The proposer list of a domain, empty when the domain has none, and
\* whether an account is in it.
Proposed(d) ==
    IF d \in DOMAIN AccountsProposedForIssuer
    THEN AccountsProposedForIssuer[d] ELSE << >>
HasProposed(d, a) == \E n \in DOMAIN Proposed(d) : Proposed(d)[n] = a

\* C12: a propose by a signed account that is not in the current validator
\* set returns OnlyValidatorsCanProposeJWKS and writes no table, whether the
\* domain has an Issuer or not.
C12_UnauthorizedProposeRejected ==
    [][(/\ call'.op = "propose_jwks"
        /\ call'.origin.signed
        /\ call'.origin.who \notin validators)
       => (/\ result' = "OnlyValidatorsCanProposeJWKS"
           /\ UNCHANGED tables)]_vars

\* A proposal by an account outside the validator set for a domain without
\* Issuer: the answer is the authorization error.
C12_Witness ==
    /\ After("propose_jwks")
    /\ call.origin.signed
    /\ call.origin.who \notin validators
    /\ ~contains_key(IssuerMap, call.domain)
    /\ result = "OnlyValidatorsCanProposeJWKS"

\* C13: a propose by an account already in the proposer list of the domain
\* fails and writes no table, whatever the document; when the account is a
\* validator and the domain has an Issuer (the two checks made before), the
\* error is AlreadyProposedForJWKS.
C13_VoteUniqueness ==
    [][(/\ call'.op = "propose_jwks"
        /\ call'.origin.signed
        /\ HasProposed(call'.domain, call'.origin.who))
       => (/\ result' # "Ok"
           /\ UNCHANGED tables
           /\ (/\ call'.origin.who \in validators
               /\ contains_key(IssuerMap, call'.domain))
              => result' = "AlreadyProposedForJWKS")]_vars

\* A second proposal of a voter, rejected, with a document that nobody has
\* proposed: not the document of the voter's first proposal.
C13_Witness ==
    /\ After("propose_jwks")
    /\ result = "AlreadyProposedForJWKS"
    /\ HasProposed(call.domain, call.origin.who)
    /\ ~contains_key(JwksHash, blake2_256(call.jwks))

\* C14: a propose by a validator not yet in the proposer list of a domain
\* with an Issuer succeeds while the list holds fewer than
\* MaxProposersPerIssuer accounts; when the list is full it returns
\* MaxProposersPerIssuerExceeded and writes no table.
C14_Capacity ==
    [][(/\ call'.op = "propose_jwks"
        /\ call'.origin.signed
        /\ call'.origin.who \in validators
        /\ contains_key(IssuerMap, call'.domain)
        /\ ~HasProposed(call'.domain, call'.origin.who))
       => IF Len(Proposed(call'.domain)) < MaxProposersPerIssuer
          THEN /\ result' = "Ok"
               /\ Len(AccountsProposedForIssuer'[call'.domain])
                    = Len(Proposed(call'.domain)) + 1
          ELSE /\ result' = "MaxProposersPerIssuerExceeded"
               /\ UNCHANGED tables]_vars

\* The proposal of one voter more than the capacity, rejected: the list
\* holds MaxProposersPerIssuer distinct accounts and not the caller.
C14_Witness ==
    /\ After("propose_jwks")
    /\ result = "MaxProposersPerIssuerExceeded"
    /\ Len(Proposed(call.domain)) = MaxProposersPerIssuer
    /\ Cardinality({Proposed(call.domain)[n] : n \in DOMAIN Proposed(call.domain)})
         = MaxProposersPerIssuer
    /\ ~HasProposed(call.domain, call.origin.who)

\* A proposer list holds at most MaxProposersPerIssuer accounts, each once.
WellFormedList(vec) ==
    /\ Len(vec) <= MaxProposersPerIssuer
    /\ \A m, n \in DOMAIN vec : vec[m] = vec[n] => m = n

\* C15: every proposer list holds at most MaxProposersPerIssuer accounts and
\* no account twice, in the initial state and after every step; and an
\* account a step adds to a list is the caller of a propose_jwks and is in
\* the validator set of that step, while no step removes or replaces an
\* account of a list that stays.
C15_ProposerListInvariant ==
    /\ \A d \in DOMAIN AccountsProposedForIssuer :
          WellFormedList(AccountsProposedForIssuer[d])
    /\ [][\A d \in DOMAIN AccountsProposedForIssuer' :
            LET old == Proposed(d)
                new == AccountsProposedForIssuer'[d]
            IN  /\ WellFormedList(new)
                /\ Len(old) <= Len(new)
                /\ \A n \in DOMAIN new :
                     IF n <= Len(old) THEN new[n] = old[n]
                     ELSE /\ call'.op = "propose_jwks"
                          /\ call'.domain = d
                          /\ new[n] = call'.origin.who
                          /\ new[n] \in validators]_vars

\* A full list with a voter who has left the validator set since.
C15_Witness ==
    \E d \in DOMAIN AccountsProposedForIssuer :
        /\ Len(AccountsProposedForIssuer[d]) = MaxProposersPerIssuer
        /\ \E n \in DOMAIN AccountsProposedForIssuer[d] :
              AccountsProposedForIssuer[d][n] \notin validators

\* C16: a propose that returns Ok appends the caller to the proposer list of
\* the domain, stores the document under its hash when the hash is not yet
\* in the content store, adds exactly one to the counter of (domain, hash),
\* and leaves every other list, every other counter, the stored documents,
\* IssuerMap, JwksMap and the interval counters as they were.  (A counter
\* counts recorded proposers, one per account: it stays far below u32::MAX.)
C16_ProposeEffects ==
    [][(call'.op = "propose_jwks" /\ result' = "Ok")
       => LET d == call'.domain
              h == blake2_256(call'.jwks)
              k == <<d, h>>
          IN  /\ AccountsProposedForIssuer'
                   = [x \in DOMAIN AccountsProposedForIssuer \cup {d} |->
                        IF x = d THEN Append(Proposed(d), call'.origin.who)
                        ELSE AccountsProposedForIssuer[x]]
              /\ JwksHash'
                   = [x \in DOMAIN JwksHash \cup {h} |->
                        IF x \in DOMAIN JwksHash THEN JwksHash[x] ELSE call'.jwks]
              /\ CounterProposedJwksHash'
                   = [x \in DOMAIN CounterProposedJwksHash \cup {k} |->
                        IF x # k THEN CounterProposedJwksHash[x]
                        ELSE IF k \in DOMAIN CounterProposedJwksHash
                             THEN CounterProposedJwksHash[k] + 1
                             ELSE 1]
              /\ UNCHANGED <<IssuerMap, JwksMap, CounterIntervalUpdateIssuer>>]_vars

\* A second vote for a document: the document was stored already, its
\* counter for the domain is now 2, and the other domain has votes too.
C16_Witness ==
    /\ AfterOk("propose_jwks")
    /\ CounterProposedJwksHash[<<call.domain, blake2_256(call.jwks)>>] = 2
    /\ Len(AccountsProposedForIssuer[call.domain]) = 2
    /\ \E d \in DOMAIN AccountsProposedForIssuer : d # call.domain

\* The hashes under which the content store holds a document.
BlobsOf(store, jwks) == {h \in DOMAIN store : store[h] = jwks}

\* C17: when a document is proposed with success for a domain and another
\* domain has a vote counter whose hash resolves to that same document, the
\* proposal adds no blob: the content store holds the document once, and
\* the counters of both domains are keyed by the hash of that one blob.
C17_DedupAcrossDomains ==
    [][(/\ call'.op = "propose_jwks"
        /\ result' = "Ok"
        /\ \E k \in DOMAIN CounterProposedJwksHash :
              /\ k[1] # call'.domain
              /\ k[2] \in DOMAIN JwksHash
              /\ JwksHash[k[2]] = call'.jwks)
       => (/\ JwksHash' = JwksHash
           /\ Cardinality(BlobsOf(JwksHash', call'.jwks)) = 1
           /\ \A h \in BlobsOf(JwksHash', call'.jwks) :
                 /\ <<call'.domain, h>> \in DOMAIN CounterProposedJwksHash'
                 /\ \E k \in DOMAIN CounterProposedJwksHash' :
                       k[1] # call'.domain /\ k[2] = h)]_vars

\* The same document proposed for both domains: one blob, and a counter of
\* each domain under its hash.
C17_Witness ==
    /\ AfterOk("propose_jwks")
    /\ call.domain = "b.io"
    /\ Cardinality(BlobsOf(JwksHash, call.jwks)) = 1
    /\ <<"a.io", blake2_256(call.jwks)>> \in DOMAIN CounterProposedJwksHash
    /\ <<"b.io", blake2_256(call.jwks)>> \in DOMAIN CounterProposedJwksHash

\* C18, as claimed: two stored documents with the same canonical form are
\* one blob under one hash, and the votes for them are in one counter.
C18_CanonicalHashing ==
    \A h1, h2 \in DOMAIN JwksHash :
        (/\ IsSome(from_slice_to_string(JwksHash[h1]))
         /\ from_slice_to_string(JwksHash[h1]) = from_slice_to_string(JwksHash[h2]))
        => h1 = h2

\* C19, as claimed: a propose by a validator, for a domain with an Issuer,
\* of a document that is not valid JSON returns InvalidJson and writes no
\* table.
C19_InvalidJsonProposeRejected ==
    [][(/\ call'.op = "propose_jwks"
        /\ call'.origin.signed
        /\ call'.origin.who \in validators
        /\ contains_key(IssuerMap, call'.domain)
        /\ ~IsSome(from_slice_to_string(call'.jwks)))
       => (/\ result' = "InvalidJson"
           /\ UNCHANGED tables)]_vars

\* C20: no step removes a hash from the content store or changes the
\* document stored under it.
C20_ContentStoreWriteOnce ==
    [][\A h \in DOMAIN JwksHash :
          /\ h \in DOMAIN JwksHash'
          /\ JwksHash'[h] = JwksHash[h]]_vars

\* The delete of an issuer with votes: the documents proposed for it are
\* still in the content store.
C20_Witness ==
    /\ AfterOk("delete_issuer")
    /\ \E k \in DOMAIN CounterProposedJwksHash :
          /\ k[1] = call.domain
          /\ k[2] \in DOMAIN JwksHash
          /\ JwksHash[k[2]] \in {JwksA, JwksB}

\* The hashes a domain has a counter for, the count of one, those with the
\* greatest count, and the first hash of a set in the iteration order: the
\* one whose storage key is less than that of every other.
HashesOf(d) == {k[2] : k \in {x \in DOMAIN CounterProposedJwksHash : x[1] = d}}
Count(d, h) == CounterProposedJwksHash[<<d, h>>]
Leaders(d) == {h \in HashesOf(d) : \A g \in HashesOf(d) : Count(d, g) <= Count(d, h)}
FirstInKeyOrder(H) ==
    CHOOSE h \in H : \A g \in H \ {h} : KeyLess(hashed_key(h), hashed_key(g))

\* C21: when one hash of the domain has a counter strictly greater than
\* every other, a set_jwks that returns Ok leaves as active JWKS the
\* document stored under that hash, whatever JWKS was active before.
C21_TallyInstallsStrictWinner ==
    [][(/\ call'.op = "set_jwks"
        /\ result' = "Ok"
        /\ Cardinality(Leaders(call'.domain)) = 1)
       => \A h \in Leaders(call'.domain) :
             /\ h \in DOMAIN JwksHash
             /\ JwksMap'[call'.domain] = JwksHash[h]]_vars

\* Two votes for one document against one for another, which comes first
\* in the iteration order: the tally installed the former in place of the
\* JWKS that was active.
C21_Witness ==
    /\ AfterOk("set_jwks")
    /\ events # << >>
    /\ Cardinality(HashesOf(call.domain)) = 2
    /\ \E h \in HashesOf(call.domain) :
          /\ Count(call.domain, h) = 2
          /\ FirstInKeyOrder(HashesOf(call.domain)) # h
          /\ JwksMap[call.domain] = JwksHash[h]

\* C22: when several hashes of the domain share the greatest counter, a
\* set_jwks that returns Ok leaves as active JWKS the document of the first
\* of them in the iteration order of the counters, that of their storage
\* keys (the one of least key): a document of a hash with the greatest
\* counter, and no other.
C22_TieBreakFirstInIterationOrder ==
    [][(/\ call'.op = "set_jwks"
        /\ result' = "Ok"
        /\ Cardinality(Leaders(call'.domain)) > 1)
       => (/\ JwksMap'[call'.domain]
                = JwksHash[FirstInKeyOrder(Leaders(call'.domain))]
           /\ \E h \in Leaders(call'.domain) :
                 JwksMap'[call'.domain] = JwksHash[h])]_vars

\* A tally over three hashes with one vote each, which installed the
\* document of the hash with the least storage key: not the document that
\* was proposed first.
C22_Witness ==
    /\ AfterOk("set_jwks")
    /\ Cardinality(Leaders(call.domain)) = 3
    /\ JwksMap[call.domain] = JwksHash[FirstInKeyOrder(Leaders(call.domain))]
    /\ AccountsProposedForIssuer[call.domain] # << >>
    /\ JwksMap[call.domain]
         # ballots[<<call.domain, Head(AccountsProposedForIssuer[call.domain])>>]

\* C23: a set_jwks by a validator for a domain with an Issuer and no
\* counter returns Ok and leaves the empty document as the active JWKS.
C23_TallyWithoutProposalsInstallsEmpty ==
    [][(/\ call'.op = "set_jwks"
        /\ call'.origin.signed
        /\ call'.origin.who \in validators
        /\ contains_key(IssuerMap, call'.domain)
        /\ HashesOf(call'.domain) = {})
       => (/\ result' = "Ok"
           /\ call'.domain \in DOMAIN JwksMap'
           /\ JwksMap'[call'.domain] = "")]_vars

\* A tally without proposals that replaced an active JWKS by the empty one.
C23_Witness ==
    /\ AfterOk("set_jwks")
    /\ HashesOf(call.domain) = {}
    /\ JwksMap[call.domain] = ""
    /\ events = << [name |-> "IssuerJWKSUpdated", who |-> call.origin.who,
                    domain |-> call.domain] >>

\* The document a tally of the domain has to install: that of the first
\* hash, in iteration order, among those with the greatest counter; the
\* empty document when the domain has no counter.
Winner(d) ==
    IF HashesOf(d) = {} THEN "" ELSE JwksHash[FirstInKeyOrder(Leaders(d))]

\* C24: a set_jwks that returns Ok writes the winning document as the
\* active JWKS of the domain and deposits one IssuerJWKSUpdated when that
\* document is not the active JWKS already; when it is, no table is written
\* and no event is deposited.
C24_TallyChangeDetection ==
    [][(call'.op = "set_jwks" /\ result' = "Ok")
       => IF get(JwksMap, call'.domain) = Some(Winner(call'.domain))
          THEN /\ UNCHANGED tables
               /\ events' = << >>
          ELSE /\ JwksMap' = [x \in DOMAIN JwksMap \cup {call'.domain} |->
                                IF x = call'.domain THEN Winner(call'.domain)
                                ELSE JwksMap[x]]
               /\ events' = << [name |-> "IssuerJWKSUpdated",
                                who |-> call'.origin.who,
                                domain |-> call'.domain] >>]_vars

\* A tally that found the winner of the votes active already.
C24_Witness ==
    /\ AfterOk("set_jwks")
    /\ HashesOf(call.domain) # {}
    /\ JwksMap[call.domain] = Winner(call.domain)
    /\ events = << >>

\* C25, as claimed: set_jwks for a domain with an Issuer returns Ok when
\* the origin is root or passes RegisterOrigin, and is rejected with no
\* table written for any other origin.
C25_TallyPrivilegedOnly ==
    [][(/\ call'.op = "set_jwks"
        /\ contains_key(IssuerMap, call'.domain))
       => IF call'.origin = Root \/ RegisterOrigin_ensure_origin(call'.origin).ok
          THEN result' = "Ok"
          ELSE result' # "Ok" /\ UNCHANGED tables]_vars

\* C26: a call that returns an error leaves every table as it was and
\* deposits no event.
C26_AtomicRejection ==
    [][(call'.op # "none" /\ result' # "Ok")
       => (UNCHANGED tables /\ events' = << >>)]_vars

\* Rejected calls of every dispatchable occur; this one is a register that
\* had written the Issuer before its JWKS was refused.
C26_Witness ==
    /\ After("register_issuer")
    /\ result = "InvalidJson"
    /\ IssuerMap = Empty
    /\ events = << >>

\* The event each dispatchable deposits on success.
EventOf(op) ==
    CASE op = "register_issuer" -> "IssuerRegistered"
      [] op = "update_issuer" -> "IssuerUpdated"
      [] op = "delete_issuer" -> "IssuerDeleted"
      [] op = "set_update_interval" -> "IssuerIntervalUpdateUpdated"
      [] op = "propose_jwks" -> "IssuerJWKSUpdated"

\* C27: after a register, update, delete, set_update_interval or propose
\* that returned Ok, exactly one event is deposited: that of the
\* dispatchable, with the caller and the domain of the call.
C27_OneNotificationPerSuccess ==
    (/\ call.op \in {"register_issuer", "update_issuer", "delete_issuer",
                     "set_update_interval", "propose_jwks"}
     /\ result = "Ok")
    => /\ Len(events) = 1
       /\ events[1].name = EventOf(call.op)
       /\ events[1].who = call.origin.who
       /\ events[1].domain = call.domain

\* An accepted proposal and its event.
C27_Witness ==
    /\ AfterOk("propose_jwks")
    /\ events = << [name |-> "IssuerJWKSUpdated", who |-> call.origin.who,
                    domain |-> call.domain] >>

\* A document is canonical when it parses and serializes to itself.
IsCanonical(jwks) == from_slice_to_string(jwks) = Some(jwks)

\* C28, as claimed: every active JWKS and every document of the content
\* store is valid JSON in canonical form.
C28_CanonicalStorage ==
    /\ \A d \in DOMAIN JwksMap : IsCanonical(JwksMap[d])
    /\ \A h \in DOMAIN JwksHash : IsCanonical(JwksHash[h])

\* The counters of a domain as a table from hash to count, and the
\* document that such a table and the content store select: the empty one
\* for the empty table, else the document stored under the hash of least
\* storage key among those of the greatest count.
CountersOf(d) == [h \in HashesOf(d) |-> Count(d, h)]
Elected(counts, blobs) ==
    IF DOMAIN counts = {} THEN ""
    ELSE LET h == FirstInKeyOrder({x \in DOMAIN counts :
                                     \A g \in DOMAIN counts : counts[g] <= counts[x]})
         IN  IF h \in DOMAIN blobs THEN blobs[h] ELSE ""

\* The registries that hold the counters and the content store of this one
\* and differ from it in the order in which the proposers of the domain
\* came and in its active JWKS (none, or any stored document).
Orders(s) ==
    {p \in [DOMAIN s -> {s[n] : n \in DOMAIN s}] :
        \A m, n \in DOMAIN s : p[m] = p[n] => m = n}
Copies(d) ==
    {[Storage EXCEPT
         !.AccountsProposedForIssuer =
             [x \in DOMAIN @ |-> IF x = d THEN p ELSE @[x]],
         !.JwksMap = a] :
        p \in Orders(Proposed(d)),
        a \in {[x \in DOMAIN JwksMap \ {d} |-> JwksMap[x]]}
              \cup {insert(JwksMap, d, JwksHash[h]) : h \in DOMAIN JwksHash}}

\* C29: the active JWKS a set_jwks that returns Ok leaves is the document
\* that the domain's counters and the content store select, whatever the
\* proposer lists, the active JWKS and the other tables are; and the tally
\* of every registry with the same counters and content store, whose
\* proposals came in another order or whose active JWKS is another,
\* selects that same document, also when counters tie.
C29_DeterministicWinner ==
    [][(call'.op = "set_jwks" /\ result' = "Ok")
       => /\ call'.domain \in DOMAIN JwksMap'
          /\ JwksMap'[call'.domain]
                = Elected(CountersOf(call'.domain), JwksHash)
          /\ \A copy \in Copies(call'.domain) :
                get_jwks_with_higher_count(copy, call'.domain)
                  = JwksMap'[call'.domain]]_vars

\* A tally over tied counters that replaced the active JWKS by a document
\* that was not the first to be proposed.
C29_Witness ==
    /\ AfterOk("set_jwks")
    /\ events # << >>
    /\ Cardinality(Leaders(call.domain)) > 1
    /\ Len(Proposed(call.domain)) > 1
    /\ JwksMap[call.domain] = Elected(CountersOf(call.domain), JwksHash)
    /\ JwksMap[call.domain]
         # ballots[<<call.domain, Head(Proposed(call.domain))>>]

\* The accounts with an accepted proposal for a domain, and those among
\* them whose proposal was a document of hash h.
Voters(d) == {k[2] : k \in {x \in DOMAIN ballots : x[1] = d}}
VotersFor(d, h) == {v \in Voters(d) : blake2_256(ballots[<<d, v>>]) = h}

\* No vote is lost: the proposer list of a domain holds exactly the accounts
\* with an accepted proposal for it, each once, and each counter of the
\* domain is the number of those accounts that proposed a document of that
\* hash.
VotesAllCounted ==
    \A d \in Domains :
        /\ {Proposed(d)[n] : n \in DOMAIN Proposed(d)} = Voters(d)
        /\ Len(Proposed(d)) = Cardinality(Voters(d))
        /\ HashesOf(d) = {blake2_256(ballots[<<d, v>>]) : v \in Voters(d)}
        /\ \A h \in HashesOf(d) : Count(d, h) = Cardinality(VotersFor(d, h))

\* C30: in whatever order the proposals come, no vote is lost, and a
\* propose by a validator for a domain that has an Issuer is refused only
\* when the account has an accepted proposal for the domain already or the
\* domain has MaxProposersPerIssuer voters (a refused call records no vote,
\* so the voters after it are those before it).
C30_NoLostUpdates ==
    /\ VotesAllCounted
    /\ (/\ After("propose_jwks")
        /\ call.origin.signed
        /\ call.origin.who \in validators
        /\ contains_key(IssuerMap, call.domain)
        /\ result # "Ok")
       => \/ call.origin.who \in Voters(call.domain)
          \/ Cardinality(Voters(call.domain)) >= MaxProposersPerIssuer

\* MaxProposersPerIssuer accepted proposals, not in the order of the
\* accounts: two for one document, one for another.
C30_Witness ==
    \E d \in Domains :
        /\ Len(Proposed(d)) = MaxProposersPerIssuer
        /\ Proposed(d)[1] > Proposed(d)[2]
        /\ Cardinality(HashesOf(d)) = 2
        /\ \E h \in HashesOf(d) : Count(d, h) = 2 /\ Cardinality(VotersFor(d, h)) = 2

(***************************************************************************)
(* The validator crate.                                                    *)
(***************************************************************************)
AfterFn(fn) == returned.fn = fn

\* The key of the set that the token's kid selects, when the header decodes
\* and names one.
SelectedKey(token, jwks) ==
    LET header == decode_header(token)
    IN  IF header.ok /\ IsSome(get_kid_from_token(header.val))
        THEN get_jwk(get_kid_from_token(header.val).val, jwks)
        ELSE None

\* C31: verify_jwt reports the first failing check, in this order: a header
\* that does not decode or has no kid or an empty one gives InvalidJwt; a kid
\* that matches no key gives NoJwkForKid; a matching key that is not a usable
\* RSA key gives NotPossibleToGetDecodeKey; a missing signature or message
\* segment gives NoSignaturePresent; a signature that does not match gives
\* ErrorVerifying; Ok is returned only when every check passes; and the
\* pallet's tables are as they were.
C31_FirstFailingCheck ==
    AfterFn("verify_jwt") =>
        LET header == decode_header(bearer)
            jwk == SelectedKey(bearer, snapshot)
            segments == split(bearer, ".")
        IN  /\ returned.value =
                IF ~header.ok \/ header.val.kid \in {None, Some("")}
                THEN Err("InvalidJwt")
                ELSE IF ~IsSome(jwk) THEN Err("NoJwkForKid")
                ELSE IF ~IsSome(get_public_key(jwk.val))
                THEN Err("NotPossibleToGetDecodeKey")
                ELSE IF Len(segments) < 3 THEN Err("NoSignaturePresent")
                ELSE IF verify(segments[3], segments[2],
                               get_public_key(jwk.val).val) # Ok(TRUE)
                THEN Err("ErrorVerifying")
                ELSE Ok(TRUE)
            /\ \A t \in 1..Len(tables) : tables[t] = Empty

\* The token has three segments and its third is the signature, under the
\* key its kid selects, of its first two joined by a dot.
Genuine(token, jwks) ==
    LET segments == split(token, ".")
        jwk == SelectedKey(token, jwks)
    IN  /\ Len(segments) = 3
        /\ IsSome(jwk)
        /\ IsSome(get_public_key(jwk.val))
        /\ b64_decode_signature(segments[3]) =
               Ok([n |-> jwk.val.n, e |-> jwk.val.e,
                   message |-> segments[1] \o "." \o segments[2]])

\* C32: verify_jwt accepts a token exactly when its signature is one of the
\* header and payload segments together, made with the key the token's kid
\* selects.
C32_SignatureOverHeaderAndPayload ==
    AfterFn("verify_jwt") =>
        (returned.value = Ok(TRUE) <=> Genuine(bearer, snapshot))

\* C33: get_signature and get_message return the third and the second
\* segment of a token of exactly three segments, and None for any other
\* token.
C33_ExactlyThreeSegments ==
    LET segments == split(bearer, ".")
    IN  /\ AfterFn("get_signature") =>
               returned.value =
                   IF Len(segments) = 3 THEN Some(segments[3]) ELSE None
        /\ AfterFn("get_message") =>
               returned.value =
                   IF Len(segments) = 3 THEN Some(segments[2]) ELSE None

(***************************************************************************)
(* Finalization and the ledger's invariants.                               *)
(***************************************************************************)
\* A step that finalizes the block of the last call.
FinalizeStep == ~Idle /\ call'.op = "none"

\* C34: finalizing a block leaves the Issuer table, the active JWKS, the
\* content store, the proposer lists and the counters as they were, so the
\* votes of a block are there for a tally in a later block.
C34_FinalizeKeepsTables == [][FinalizeStep => tables' = tables]_vars

\* A block has been finalized and a counter holds the votes of two blocks.
C34_Witness ==
    /\ Idle
    /\ \E k \in DOMAIN CounterProposedJwksHash : CounterProposedJwksHash[k] >= 2

RECURSIVE SumCounts(_, _)
SumCounts(d, H) ==
    IF H = {} THEN 0
    ELSE LET h == CHOOSE x \in H : TRUE
         IN  Count(d, h) + SumCounts(d, H \ {h})

\* C35: for every domain, the counters of the domain add up to the length of
\* its proposer list, and no counter is above MaxProposersPerIssuer.
C35_CountersSumToVoters ==
    /\ \A d \in Domains : SumCounts(d, HashesOf(d)) = Len(Proposed(d))
    /\ \A k \in DOMAIN CounterProposedJwksHash :
           CounterProposedJwksHash[k] <= MaxProposersPerIssuer

\* A domain with three voters on two documents.
C35_Witness ==
    \E d \in Domains :
        /\ Len(Proposed(d)) = 3
        /\ Cardinality(HashesOf(d)) = 2

\* C36: every hash with a non-zero counter has its document in JwksHash, and
\* a tally of a domain with a proposal installs one of the domain's proposed
\* documents, never the empty fallback.
C36_WinnerResolvable ==
    /\ \A k \in DOMAIN CounterProposedJwksHash :
           CounterProposedJwksHash[k] # 0 => k[2] \in DOMAIN JwksHash
    /\ (AfterOk("set_jwks") /\ HasCounter(call.domain)) =>
           /\ call.domain \in DOMAIN JwksMap
           /\ \E h \in HashesOf(call.domain) :
                  /\ h \in DOMAIN JwksHash
                  /\ JwksMap[call.domain] = JwksHash[h]

\* A tally of a domain with two voters has installed a document.
C36_Witness ==
    /\ AfterOk("set_jwks")
    /\ HasCounter(call.domain)
    /\ Len(Proposed(call.domain)) >= 2
    /\ events # << >>

\* C37: a vote is permanent.  Whatever calls, finalizations and session
\* changes came after an account's accepted proposal for a domain (a tally,
\* a delete and a new registration of the domain among them), every later
\* propose of that account for that domain fails, with
\* AlreadyProposedForJWKS when the earlier checks of the call pass (the
\* caller is a validator and the domain has an Issuer); and once
\* MaxProposersPerIssuer accounts have voted for a domain, every later
\* propose for that domain fails.
C37_VotesArePermanent ==
    [][(/\ call'.op = "propose_jwks"
        /\ call'.origin.signed)
       => /\ call'.origin.who \in Voters(call'.domain)
             => /\ result' # "Ok"
                /\ (/\ call'.origin.who \in validators
                    /\ contains_key(IssuerMap, call'.domain))
                   => result' = "AlreadyProposedForJWKS"
          /\ Cardinality(Voters(call'.domain)) >= MaxProposersPerIssuer
             => result' # "Ok"]_vars

\* A proposal of an account that has voted, rejected, for a domain whose
\* list is full and that has no active JWKS.
C37_Witness ==
    /\ After("propose_jwks")
    /\ result = "AlreadyProposedForJWKS"
    /\ call.origin.who \in Voters(call.domain)
    /\ Len(Proposed(call.domain)) = MaxProposersPerIssuer
    /\ call.domain \notin DOMAIN JwksMap

(***************************************************************************)
(* Frames of the tally and of the single-field setters.                    *)
(***************************************************************************)
\* C38: a tally writes nothing but the active JWKS of the tallied domain:
\* the Issuer table, the content store, the proposer lists, the counters and
\* the active JWKS of every other domain are after it as before.
C38_TallyFrame ==
    [][call'.op = "set_jwks"
       => /\ UNCHANGED <<IssuerMap, JwksHash, AccountsProposedForIssuer,
                         CounterProposedJwksHash, CounterIntervalUpdateIssuer>>
          /\ \A d \in Domains \ {call'.domain} :
                 get(JwksMap', d) = get(JwksMap, d)]_vars

\* A tally has installed a document for a domain with votes while another
\* domain has an active JWKS.
C38_Witness ==
    /\ AfterOk("set_jwks")
    /\ events # << >>
    /\ HasCounter(call.domain)
    /\ \E d \in DOMAIN JwksMap : d # call.domain

\* C39: a tally is idempotent.  In the state a successful tally leaves, the
\* same tally again (the finalization between the two writes no table)
\* returns Ok, writes no table and deposits no event.
C39_TallyIdempotent ==
    AfterOk("set_jwks") =>
        LET again == set_jwks(call.origin, call.domain)
        IN  /\ again.res.ok
            /\ again.st = Storage

\* A tally of a domain with votes that changed nothing: an earlier tally
\* had installed the same winner, which no registration of the model
\* installs.
C39_Witness ==
    /\ AfterOk("set_jwks")
    /\ events = << >>
    /\ HasCounter(call.domain)
    /\ get(JwksMap, call.domain) = Some(JwksB)

\* The tables but the Issuer table.
otherTables == <<JwksMap, AccountsProposedForIssuer, JwksHash,
                 CounterProposedJwksHash, CounterIntervalUpdateIssuer>>

\* C40: a successful set_update_interval changes only interval_update, to
\* the clamped value; a successful set_enabled only is_enabled, to the given
\* flag; a successful set_open_id_url only open_id_url; the Issuer's other
\* fields, the other Issuers and the other tables are as before.
C40_SettersFrame ==
    [][(/\ result' = "Ok"
        /\ call'.op \in {"set_update_interval", "set_enabled", "set_open_id_url"})
       => /\ UNCHANGED otherTables
          /\ call'.domain \in DOMAIN IssuerMap
          /\ IssuerMap' =
               [IssuerMap EXCEPT ![call'.domain] =
                   CASE call'.op = "set_update_interval" ->
                          [@ EXCEPT !.interval_update =
                                        ClampedInterval(call'.interval_update)]
                     [] call'.op = "set_enabled" ->
                          [@ EXCEPT !.is_enabled = call'.is_enabled]
                     [] call'.op = "set_open_id_url" ->
                          [@ EXCEPT !.open_id_url = Some(call'.open_id_url)]]]_vars

\* A setter has changed its field of an Issuer whose other two fields are
\* not the defaults, while the domain has an active JWKS and a vote.
C40_Witness ==
    /\ AfterOk("set_enabled")
    /\ call.domain \in DOMAIN IssuerMap
    /\ IssuerMap[call.domain] = Issuer(Some("u2"), Some(MaxUpdateInterval), FALSE)
    /\ call.domain \in DOMAIN JwksMap
    /\ HasCounter(call.domain)
=============================================================================
